---- MODULE Spec2Model ----
(***************************************************************************)
(* A model of SIDE (squibbium-235/SIDE): the text buffer and cursor engine *)
(* of src/ide/src/main.rs and the rule cache and line highlighter of       *)
(* src/ide/src/syntax.rs.                                                  *)
(*                                                                         *)
(* Text is modelled as Rust stores it: a String is a sequence of UTF-8     *)
(* bytes (their real values), cursor columns are byte offsets, and the     *)
(* String methods that assert a character boundary panic in the model      *)
(* where they panic in Rust.  Line and column indices are 0-based as in    *)
(* the code; TLA+ sequences are 1-based, so line i is lines[i + 1].        *)
(***************************************************************************)
EXTENDS Integers, Sequences, FiniteSets, TLC

VARIABLES
    tabs,        \* Signal<Vec<Tab>>: the open tabs
    active_tab,  \* Signal<usize>: index of the active tab (0-based)
    scroll_top,  \* Signal<f64>: scroll offset of the editor pane, in px
    viewport_h,  \* Signal<f64>: height of the editor pane, in px
    status,      \* Signal<String>: the status message, as <<kind, path>>
    panicked,    \* TRUE once a handler has panicked (the process is gone)
    last,        \* history: the last event handled and the state it ran in
    files,       \* the file system: path -> what is stored there
    call,        \* history: the last direct call of a function and its result
    manifest,    \* MANIFEST: the manifest data, built once at first use
    confirm_open,   \* Signal<bool>: the confirmation dialog is shown
    pending_action, \* Signal<PendingAction>: what the dialog is to confirm
    window,         \* the application window: "open" or "closed"
    dialog,         \* the task that awaits the save-file dialog, if any
    cache,       \* SYNTAX_CACHE: language name -> Syntax, or NoEntry
    disk,        \* which version of rust.sidel the syntax directory holds
    ctx,         \* per execution context: its call of load_syntax in progress
    reads,       \* history: load_sidel_text calls per language
    parses,      \* history: parse_sidel calls per language
    inserts      \* history: cache inserts per language

modalVars == <<confirm_open, pending_action, window, dialog>>

envVars == <<files, call, manifest, modalVars>>

edVars ==
    <<tabs, active_tab, scroll_top, viewport_h, status, panicked, last, envVars>>

synVars == <<cache, disk, ctx, reads, parses, inserts>>

vars == <<edVars, synVars>>

(***************************************************************************)
(* Bounds of the model.                                                    *)
(***************************************************************************)
MaxTabs == 2     \* tabs open at once
MaxLines == 3    \* lines in one tab's document
MaxBytes == 4    \* bytes of text held by all tabs together

(***************************************************************************)
(* UTF-8 text.                                                             *)
(***************************************************************************)
Min(a, b) == IF a <= b THEN a ELSE b

Max(a, b) == IF a >= b THEN a ELSE b

\* The characters the model types and reads: ' ', '\n' and the two-byte
\* character U+00E9, each as its UTF-8 encoding.
ChSpace == <<32>>

ChNewline == <<10>>

ChEAcute == <<195, 169>>

\* char::len_utf8
len_utf8(ch) == Len(ch)

\* Width of the character whose first byte is b (core::str::utf8_char_width).
utf8_char_width(b) ==
    IF b < 128 THEN 1
    ELSE IF b >= 192 /\ b < 224 THEN 2
    ELSE IF b >= 224 /\ b < 240 THEN 3
    ELSE 4

\* str::is_char_boundary: offset 0 and len are boundaries, an offset past
\* the end is not, and inside the string the byte at the offset must not be
\* a continuation byte (0x80..0xBF).
is_char_boundary(str, idx) ==
    IF idx = 0 THEN TRUE
    ELSE IF idx >= Len(str) THEN idx = Len(str)
    ELSE ~(str[idx + 1] >= 128 /\ str[idx + 1] < 192)

\* String::insert(idx, ch), defined where is_char_boundary(str, idx).
StrInsert(str, idx, ch) ==
    SubSeq(str, 1, idx) \o ch \o SubSeq(str, idx + 1, Len(str))

\* String::remove(idx) panics unless idx is a boundary with a character
\* after it; it removes that whole character.
StrRemoveOk(str, idx) == idx < Len(str) /\ is_char_boundary(str, idx)

StrRemove(str, idx) ==
    SubSeq(str, 1, idx)
        \o SubSeq(str, idx + utf8_char_width(str[idx + 1]) + 1, Len(str))

\* Vec::remove(i) and Vec::insert(i, x), 0-based.
VecRemove(v, i) == SubSeq(v, 1, i) \o SubSeq(v, i + 2, Len(v))

VecInsert(v, i, x) == SubSeq(v, 1, i) \o <<x>> \o SubSeq(v, i + 1, Len(v))

\* split_lines_vec: text.split('\n'); str::split yields one (empty) piece
\* for the empty string, so the is_empty branch is never taken.
RECURSIVE SplitFrom(_, _, _)
SplitFrom(text, i, cur) ==
    IF i > Len(text) THEN <<cur>>
    ELSE IF text[i] = 10 THEN <<cur>> \o SplitFrom(text, i + 1, <<>>)
    ELSE SplitFrom(text, i + 1, Append(cur, text[i]))

\* Mutant of split_lines_vec: drops empty pieces, so the empty text gives no
\* line at all.
split_lines_vec_drop_empty(text) ==
    SelectSeq(SplitFrom(text, 1, <<>>), LAMBDA piece : piece # <<>>)

split_lines_vec(text) ==
    LET v == SplitFrom(text, 1, <<>>)
    IN  IF v = <<>> THEN <<<<>>>> ELSE v

split_lines(text) == split_lines_vec(text)

(***************************************************************************)
(* The editing engine.  An operation takes an EditorState                  *)
(* [lines, cursor |-> [line, col]] and yields [s |-> the state after it,   *)
(* panic |-> whether it panicked on the way].                              *)
(***************************************************************************)
Cursor(l, c) == [line |-> l, col |-> c]

EditorState(ls, cur) == [lines |-> ls, cursor |-> cur]

DefaultEditorState == EditorState(<<<<>>>>, Cursor(0, 0))

Done(s) == [s |-> s, panic |-> FALSE]

Panic(s) == [s |-> s, panic |-> TRUE]

insert_char(s, ch) ==
    LET line == s.cursor.line
        col == s.cursor.col
        lines1 == IF line >= Len(s.lines) THEN Append(s.lines, <<>>)
                  ELSE s.lines
    IN  IF line >= Len(lines1) THEN Panic(s)
        ELSE IF ~is_char_boundary(lines1[line + 1], col) THEN Panic(s)
        ELSE Done(EditorState(
                 [lines1 EXCEPT ![line + 1] = StrInsert(@, col, ch)],
                 Cursor(line, col + len_utf8(ch))))

RECURSIVE insert_str(_, _)
insert_str(s, t) ==
    IF t = <<>> THEN Done(s)
    ELSE LET r == insert_char(s, Head(t))
         IN  IF r.panic THEN r ELSE insert_str(r.s, Tail(t))

\* Mutant of backspace_merge: the text of the removed line is dropped.
backspace_merge_drops_tail(lines, line) ==
    LET removed == VecRemove(lines, line)
        prev == line - 1
        len == Len(removed[prev + 1])
    IN  Done(EditorState(removed, Cursor(prev, len)))

\* The line-merge branch of backspace (col == 0 and line > 0).
backspace_merge(lines, line) ==
    LET tail == lines[line + 1]
        removed == VecRemove(lines, line)
        prev == line - 1
        len == Len(removed[prev + 1])
    IN  Done(EditorState(
            [removed EXCEPT ![prev + 1] = @ \o tail],
            Cursor(prev, len)))

backspace(s) ==
    IF s.lines = <<>> THEN Done(EditorState(<<<<>>>>, Cursor(0, 0)))
    ELSE
    LET col == s.cursor.col
        line == Min(s.cursor.line, Len(s.lines) - 1)
    IN  IF col > 0 THEN
            IF col <= Len(s.lines[line + 1]) THEN
                IF StrRemoveOk(s.lines[line + 1], col - 1)
                THEN Done(EditorState(
                         [s.lines EXCEPT ![line + 1] = StrRemove(@, col - 1)],
                         Cursor(s.cursor.line, col - 1)))
                ELSE Panic(s)
            ELSE Done(s)
        ELSE IF line > 0 THEN backspace_merge(s.lines, line)
        ELSE Done(s)

\* Mutant of newline: the separator is stored in the line as a character.
newline_in_line(s) == insert_char(s, ChNewline)

newline(s) ==
    LET lines1 == IF s.lines = <<>> THEN <<<<>>>> ELSE s.lines
        line == Min(s.cursor.line, Len(lines1) - 1)
        safe_col == Min(s.cursor.col, Len(lines1[line + 1]))
    IN  IF ~is_char_boundary(lines1[line + 1], safe_col) THEN Panic(s)
        ELSE LET head == SubSeq(lines1[line + 1], 1, safe_col)
                 rest == SubSeq(lines1[line + 1], safe_col + 1,
                                Len(lines1[line + 1]))
             IN  Done(EditorState(
                     VecInsert([lines1 EXCEPT ![line + 1] = head],
                               line + 1, rest),
                     Cursor(line + 1, 0)))

\* Mutant of move_left: column 0 is a stop on every line.
move_left_no_wrap(s) ==
    IF s.cursor.col > 0
    THEN Done([s EXCEPT !.cursor.col = @ - 1])
    ELSE Done(s)

move_left(s) ==
    IF s.cursor.col > 0
    THEN Done([s EXCEPT !.cursor.col = @ - 1])
    ELSE IF s.cursor.line > 0
    THEN IF s.cursor.line - 1 >= Len(s.lines) THEN Panic(s)
         ELSE Done([s EXCEPT !.cursor =
                        Cursor(s.cursor.line - 1, Len(s.lines[s.cursor.line]))])
    ELSE Done(s)

move_right(s) ==
    IF s.cursor.line >= Len(s.lines) THEN Panic(s)
    ELSE IF s.cursor.col < Len(s.lines[s.cursor.line + 1])
    THEN Done([s EXCEPT !.cursor.col = @ + 1])
    ELSE IF s.cursor.line + 1 < Len(s.lines)
    THEN Done([s EXCEPT !.cursor = Cursor(s.cursor.line + 1, 0)])
    ELSE Done(s)

\* Mutant of move_up: the column is not clamped to the target line.
move_up_unclamped(s) ==
    IF s.cursor.line > 0
    THEN Done([s EXCEPT !.cursor.line = @ - 1])
    ELSE Done(s)

move_up(s) ==
    IF s.cursor.line > 0
    THEN IF s.cursor.line - 1 >= Len(s.lines) THEN Panic(s)
         ELSE Done([s EXCEPT !.cursor =
                        Cursor(s.cursor.line - 1,
                               Min(s.cursor.col, Len(s.lines[s.cursor.line])))])
    ELSE Done(s)

\* Mutant of move_down: the column is not clamped to the target line.
move_down_unclamped(s) ==
    IF s.cursor.line + 1 < Len(s.lines)
    THEN Done([s EXCEPT !.cursor.line = @ + 1])
    ELSE Done(s)

move_down(s) ==
    IF s.cursor.line + 1 < Len(s.lines)
    THEN Done([s EXCEPT !.cursor =
                   Cursor(s.cursor.line + 1,
                          Min(s.cursor.col, Len(s.lines[s.cursor.line + 2])))])
    ELSE Done(s)

handle_key(s, key) ==
    LET out(r, changed) == [s |-> r.s, panic |-> r.panic, changed |-> changed]
    IN  CASE key.k = "ArrowLeft" -> out(move_left(s), FALSE)
          [] key.k = "ArrowRight" -> out(move_right(s), FALSE)
          [] key.k = "ArrowUp" -> out(move_up(s), FALSE)
          [] key.k = "ArrowDown" -> out(move_down(s), FALSE)
          [] key.k = "Backspace" -> out(backspace(s), TRUE)
          [] key.k = "Enter" -> out(newline(s), TRUE)
          [] key.k = "Tab" ->
                out(insert_str(s, <<ChSpace, ChSpace, ChSpace, ChSpace>>), TRUE)
          [] key.k = "Character" /\ Len(key.c) = 1 ->
                out(insert_char(s, key.c[1]), TRUE)
          [] OTHER -> out(Done(s), FALSE)

(***************************************************************************)
(* The file system the shell reads and writes.  A path is a name; files    *)
(* maps it to what is stored there: a file with its text, a file the       *)
(* process may neither read nor write ("denied"), or nothing ("absent").   *)
(* PathExt is the path's extension as written.                             *)
(*                                                                         *)
(* A text of millions of bytes is held as one element Run(n) that stands   *)
(* for n ASCII bytes other than '\n'; ByteLen counts the bytes a text       *)
(* stands for.                                                             *)
(***************************************************************************)
NoPath == "none"

Run(n) == 256 + n

RECURSIVE ByteLen(_)
ByteLen(text) ==
    IF text = <<>> THEN 0
    ELSE (IF Head(text) >= 256 THEN Head(text) - 256 ELSE 1)
             + ByteLen(Tail(text))

\* Mutant of join_lines: the separator follows every line, the last too.
RECURSIVE join_lines_terminated(_)
join_lines_terminated(lines) ==
    IF lines = <<>> THEN <<>>
    ELSE lines[1] \o ChNewline \o join_lines_terminated(Tail(lines))

\* join_lines: lines.join("\n")
RECURSIVE join_lines(_)
join_lines(lines) ==
    IF lines = <<>> THEN <<>>
    ELSE IF Len(lines) = 1 THEN lines[1]
    ELSE lines[1] \o ChNewline \o join_lines(Tail(lines))

DISABLE_AT_BYTES == 2000000

Paths ==
    {"empty.txt", "e.RS", "locked.rs", "big.rs", "edge.rs", "over.rs",
     "out.txt", "gone.rs"}

File(text) == [st |-> "file", text |-> text]

Denied == [st |-> "denied", text |-> <<>>]

Absent == [st |-> "absent", text |-> <<>>]

\* The file system at start: an empty file, "\u00e9\n ", a file without
\* permissions, a file of exactly DISABLE_AT_BYTES bytes, one of a byte less
\* and one of a byte more; "out.txt" and "gone.rs" do not exist.
FsContent ==
    [p \in Paths |->
        CASE p = "empty.txt" -> File(<<>>)
          [] p = "e.RS" -> File(ChEAcute \o ChNewline \o ChSpace)
          [] p = "locked.rs" -> Denied
          [] p = "big.rs" -> File(<<Run(DISABLE_AT_BYTES)>>)
          [] p = "edge.rs" -> File(<<Run(DISABLE_AT_BYTES - 1)>>)
          [] p = "over.rs" -> File(<<Run(DISABLE_AT_BYTES + 1)>>)
          [] OTHER -> Absent]

\* std::fs::read_to_string(path) is Ok
ReadOk(fs, path) == fs[path].st = "file"

\* std::fs::write(path, text): Ok unless the path is denied; the file then
\* holds the text.
WriteOk(fs, path) == fs[path].st # "denied"

fs_write(fs, path, text) == [fs EXCEPT ![path] = File(text)]

\* std::fs::metadata(path) is Ok, and the length it reports.
MetadataOk(fs, path) == fs[path].st # "absent"

FsLen(fs, path) == ByteLen(fs[path].text)

\* Paths a language can be asked for without a file behind them: one
\* without an extension, one with a mixed-case extension.
BarePaths == {"Makefile", "n.Let"}

\* path.extension().and_then(|s| s.to_str()).unwrap_or("")
PathExt ==
    [p \in Paths \cup BarePaths |->
        CASE p = "e.RS" -> "RS"
          [] p \in {"locked.rs", "big.rs", "edge.rs", "over.rs", "gone.rs"} -> "rs"
          [] p = "Makefile" -> ""
          [] p = "n.Let" -> "Let"
          [] OTHER -> "txt"]

\* str::to_ascii_lowercase on the extensions the model meets.
to_ascii_lowercase(str) ==
    CASE str = "RS" -> "rs"
      [] str = "Let" -> "let"
      [] str = "TXT" -> "txt"
      [] OTHER -> str

\* A manifest.toml is its [[language]] tables in order, each a name and its
\* extensions as written; the text may also be absent or fail to parse.
ManifestLang(name, extensions) == [name |-> name, extensions |-> extensions]

ManifestText(language) == [kind |-> "toml", language |-> language]

\* The manifest of the syntax directory.
ManifestToml ==
    ManifestText(<<ManifestLang("rust", <<"rs">>), ManifestLang("letlang", <<"let">>),
                   ManifestLang("broken", <<>>), ManifestLang("nosrc", <<>>)>>)

\* A manifest that declares a language named plain and writes extensions
\* in upper case.
ManifestWithPlain ==
    ManifestText(<<ManifestLang("rust", <<"RS">>),
                   ManifestLang("plain", <<"TXT">>),
                   ManifestLang("letlang", <<"let">>)>>)

ManifestMissing == [kind |-> "missing", language |-> <<>>]

ManifestMalformed == [kind |-> "malformed", language |-> <<>>]

ManifestTexts ==
    {ManifestToml, ManifestWithPlain, ManifestMissing, ManifestMalformed}

ManifestData(ext_to_lang, languages) ==
    [ext_to_lang |-> ext_to_lang, languages |-> languages]

\* HashMap::insert: a later entry for the same key replaces the earlier one.
MapInsert(m, k, v) ==
    [x \in DOMAIN m \cup {k} |-> IF x = k THEN v ELSE m[x]]

\* Mutant of ext_insert: the extension is stored as written.
ext_insert_as_written(m, ext, name) == MapInsert(m, ext, name)

\* ext_to_lang.insert(ext.to_ascii_lowercase(), lang.name.clone())
ext_insert(m, ext, name) == MapInsert(m, to_ascii_lowercase(ext), name)

RECURSIVE insert_extensions(_, _, _)
insert_extensions(m, extensions, name) ==
    IF extensions = <<>> THEN m
    ELSE insert_extensions(ext_insert(m, Head(extensions), name),
                           Tail(extensions), name)

RECURSIVE insert_languages(_, _)
insert_languages(data, language) ==
    IF language = <<>> THEN data
    ELSE insert_languages(
             ManifestData(insert_extensions(data.ext_to_lang,
                                            Head(language).extensions,
                                            Head(language).name),
                          data.languages \cup {Head(language).name}),
             Tail(language))

\* load_manifest().unwrap_or_else(|_| empty): a manifest that is absent or
\* does not parse gives the empty data.
load_manifest(text) ==
    IF text.kind = "toml"
    THEN insert_languages(ManifestData(<<>>, {}), text.language)
    ELSE ManifestData(<<>>, {})

ManifestLanguages == manifest.languages

ManifestExtToLang == manifest.ext_to_lang

detect_language_from_path(path) ==
    LET ext == to_ascii_lowercase(PathExt[path])
    IN  IF ext = "" THEN "plain"
        ELSE IF ext \in DOMAIN ManifestExtToLang THEN ManifestExtToLang[ext]
        ELSE "plain"

\* Mutant of maybe_disable_highlighting: the threshold itself is let through.
maybe_disable_highlighting_above(fs, path, language) ==
    IF MetadataOk(fs, path) /\ FsLen(fs, path) > DISABLE_AT_BYTES THEN "plain"
    ELSE language

maybe_disable_highlighting(fs, path, language) ==
    IF MetadataOk(fs, path) /\ FsLen(fs, path) >= DISABLE_AT_BYTES THEN "plain"
    ELSE language

(***************************************************************************)
(* Tabs.                                                                   *)
(***************************************************************************)
\* PendingAction.  idx is the index CloseTab carries; id is history: the id
\* of the tab the action was requested for.
NoPending == [kind |-> "None", idx |-> 0, id |-> 0]

CloseTab(idx, id) == [kind |-> "CloseTab", idx |-> idx, id |-> id]

ExitApp(id) == [kind |-> "ExitApp", idx |-> 0, id |-> id]

\* A task at its await of AsyncFileDialog::save_file: which flow it is in
\* and the tab index it holds; id is history as above.
NoTask == [task |-> "none", idx |-> 0, id |-> 0]

Awaiting(task, idx, id) == [task |-> task, idx |-> idx, id |-> id]

Tab(id, path, language, dirty, editor) ==
    [id |-> id, path |-> path, language |-> language, dirty |-> dirty,
     editor |-> editor]

new_untitled(id) == Tab(id, NoPath, "plain", FALSE, DefaultEditorState)

RECURSIVE MaxId(_)
MaxId(v) == IF v = <<>> THEN 0 ELSE Max(v[1].id, MaxId(Tail(v)))

next_tab_id(v) == MaxId(v) + 1

\* find_open_tab_index: the first index whose path is the given one, or -1.
find_open_tab_index(v, path) ==
    IF \E i \in 1..Len(v) : v[i].path = path
    THEN (CHOOSE i \in 1..Len(v) :
              v[i].path = path /\ \A j \in 1..(i - 1) : v[j].path # path) - 1
    ELSE -1

\* What the model's bounds admit: at most MaxTabs tabs of at most MaxLines
\* lines each, holding at most MaxBytes bytes of text together.
RECURSIVE SumLen(_)
SumLen(ls) == IF ls = <<>> THEN 0 ELSE Len(ls[1]) + SumLen(Tail(ls))

RECURSIVE TabsBytes(_)
TabsBytes(v) ==
    IF v = <<>> THEN 0 ELSE SumLen(v[1].editor.lines) + TabsBytes(Tail(v))

Fits(v) ==
    /\ Len(v) <= MaxTabs
    /\ \A i \in 1..Len(v) : Len(v[i].editor.lines) <= MaxLines
    /\ TabsBytes(v) <= MaxBytes

(***************************************************************************)
(* Events of the editing shell.  Every handler runs to completion on the   *)
(* UI thread, so each is one step.                                         *)
(***************************************************************************)
NoKey == [k |-> "none", c |-> <<>>]

Key(k) == [k |-> k, c |-> <<>>]

CharKey(cs) == [k |-> "Character", c |-> cs]

Keys ==
    {Key("ArrowLeft"), Key("ArrowRight"), Key("ArrowUp"), Key("ArrowDown"),
     Key("Backspace"), Key("Enter"), Key("Tab"), Key("Escape"),
     CharKey(<<ChSpace>>), CharKey(<<ChEAcute>>),
     CharKey(<<ChSpace, ChSpace>>)}

\* The history of an event; a key event also records the tabs it ran on.
Event(ev, key) ==
    [ev |-> ev, key |-> key,
     tabs |-> IF ev = "KeyDown" THEN tabs ELSE <<>>,
     active |-> IF ev = "KeyDown" THEN active_tab ELSE 0]

\* Mutant of set_active_tab_editor: a change marks every tab modified.
set_active_tab_editor_marks_all(v, a, key) ==
    LET t == v[a + 1]
        r == handle_key(t.editor, key)
        t2 == [t EXCEPT !.editor = r.s]
        w == [v EXCEPT ![a + 1] = t2]
    IN  [tabs |-> [i \in 1..Len(w) |->
                      [w[i] EXCEPT !.dirty = IF r.changed THEN TRUE ELSE @]],
         panic |-> r.panic]

\* set_active_tab_editor with onkeydown's closure, for a < v.len(): the tab
\* list stored back, and whether handle_key panicked before that.
set_active_tab_editor(v, a, key) ==
    LET t == v[a + 1]
        r == handle_key(t.editor, key)
        t2 == [t EXCEPT !.editor = r.s,
                        !.dirty = IF r.changed THEN TRUE ELSE @]
    IN  [tabs |-> [v EXCEPT ![a + 1] = t2], panic |-> r.panic]

\* onkeydown, the editor-typing part: set_active_tab_editor runs handle_key
\* on a copy of the tab list and stores the copy back, so a panic inside
\* handle_key leaves the signals as they were.
KeyDown(key) ==
    /\ ~panicked
    /\ last' = Event("KeyDown", key)
    /\ UNCHANGED <<active_tab, scroll_top, viewport_h, status, envVars,
                 synVars>>
    /\ IF active_tab < Len(tabs)
       THEN LET r == set_active_tab_editor(tabs, active_tab, key)
            IN  IF r.panic
                THEN panicked' = TRUE /\ tabs' = tabs
                ELSE Fits(r.tabs) /\ tabs' = r.tabs /\ panicked' = FALSE
       ELSE UNCHANGED <<tabs, panicked>>

\* Metrics (px).  line_px() is (FONT_PX * LINE_HEIGHT_EM).round() = 20 and
\* char_px() is FONT_PX * CHAR_WIDTH_RATIO = 8.4, kept in tenths of a pixel.
FONT_PX == 14

LINE_HEIGHT_EM_x10 == 14

CHAR_WIDTH_RATIO_x100 == 60

PAD_X_PX == 10

PAD_Y_PX == 8

CLICK_COL_BIAS_PX == 2

line_px == (FONT_PX * LINE_HEIGHT_EM_x10 + 5) \div 10

char_px_x10 == (FONT_PX * CHAR_WIDTH_RATIO_x100) \div 10

\* f64::floor and f64::ceil of a / b for b > 0, and the cast `as usize`,
\* which saturates at 0.
floor_div(a, b) == a \div b

ceil_div(a, b) == -((-a) \div b)

as_usize(x) == IF x < 0 THEN 0 ELSE x

buffer == 20

\* Mutant of visible_range: the buffer lines are left out of the range.
visible_range_no_buffer(st, vh, total_lines) ==
    IF total_lines = 0
    THEN [start |-> 0, end |-> 0, top_h |-> 0, bottom_h |-> 0]
    ELSE LET lp == line_px
             start == Max(floor_div(st, lp), 0)
             visible == as_usize(ceil_div(vh, lp))
             end == Min(start + visible, total_lines)
         IN  [start |-> start, end |-> end, top_h |-> start * lp,
              bottom_h |-> (total_lines - end) * lp]

visible_range(st, vh, total_lines) ==
    IF total_lines = 0
    THEN [start |-> 0, end |-> 0, top_h |-> 0, bottom_h |-> 0]
    ELSE LET lp == line_px
             start == Max(floor_div(st, lp), 0)
             visible == as_usize(ceil_div(vh, lp)) + buffer
             end == Min(start + visible, total_lines)
         IN  [start |-> start, end |-> end, top_h |-> start * lp,
              bottom_h |-> (total_lines - end) * lp]

\* The render pass: the range of the active tab's lines it shows.
render_range ==
    LET total == IF active_tab < Len(tabs)
                 THEN Len(tabs[active_tab + 1].editor.lines)
                 ELSE Len(DefaultEditorState.lines)
    IN  visible_range(scroll_top, viewport_h, total)

\* Pointer positions the model clicks at (element coordinates, px) and the
\* scroll geometries the pane reports.
ClickXs == {0, 20, 38, 60}

ClickYs == {0, 35, 75}

ScrollGeometries == {<<0, 600>>, <<20, 300>>}

\* textpane onclick: maps the pointer to (line, col) and clamps both.
click_cursor(s, px, py, st) ==
    LET content_x == (px - PAD_X_PX) + CLICK_COL_BIAS_PX
        content_y == (py - PAD_Y_PX) + st
        lines1 == IF s.lines = <<>> THEN <<<<>>>> ELSE s.lines
        line0 == IF content_y <= 0 THEN 0 ELSE content_y \div line_px
        line == IF line0 >= Len(lines1) THEN Len(lines1) - 1 ELSE line0
        col0 == IF content_x <= 0 THEN 0
                ELSE (content_x * 10) \div char_px_x10
        max_col == Len(lines1[line + 1])
        col == IF col0 > max_col THEN max_col ELSE col0
    IN  EditorState(lines1, Cursor(line, col))

Click(px, py) ==
    /\ ~panicked
    /\ last' = Event("Click", NoKey)
    /\ UNCHANGED <<active_tab, scroll_top, viewport_h, status, panicked, envVars,
                 synVars>>
    /\ IF active_tab < Len(tabs)
       THEN tabs' = [tabs EXCEPT ![active_tab + 1].editor =
                         click_cursor(@, px, py, scroll_top)]
       ELSE UNCHANGED tabs

\* onscroll
OnScroll(g) ==
    /\ ~panicked
    /\ last' = Event("OnScroll", NoKey)
    /\ scroll_top' = g[1]
    /\ viewport_h' = g[2]
    /\ UNCHANGED <<tabs, active_tab, status, panicked, envVars,
                 synVars>>

\* The tab's onclick: active_tab.set(idx) for a tab that is shown.
TabClick(idx) ==
    /\ ~panicked
    /\ idx < Len(tabs)
    /\ last' = Event("TabClick", NoKey)
    /\ active_tab' = idx
    /\ UNCHANGED <<tabs, scroll_top, viewport_h, status, panicked, envVars,
                 synVars>>

create_new_tab ==
    LET v == Append(tabs, new_untitled(next_tab_id(tabs)))
    IN  /\ ~panicked
        /\ Fits(v)
        /\ last' = Event("NewTab", NoKey)
        /\ tabs' = v
        /\ active_tab' = Len(v) - 1
        /\ status' = <<"New tab", NoPath>>
        /\ UNCHANGED <<scroll_top, viewport_h, panicked, envVars,
                 synVars>>

\* Mutant of close_tab_immediately: the active index is not brought back
\* into range.
close_tab_immediately_unclamped(v, a, idx) ==
    IF v = <<>> THEN [tabs |-> <<new_untitled(1)>>, active |-> 0]
    ELSE IF idx >= Len(v) THEN [tabs |-> v, active |-> a]
    ELSE LET w == VecRemove(v, idx)
         IN  IF w = <<>> THEN [tabs |-> <<new_untitled(1)>>, active |-> 0]
             ELSE [tabs |-> w, active |-> a]

\* close_tab_immediately: the tab list and the active index it leaves in the
\* signals.
close_tab_immediately(v, a, idx) ==
    IF v = <<>> THEN [tabs |-> <<new_untitled(1)>>, active |-> 0]
    ELSE IF idx >= Len(v) THEN [tabs |-> v, active |-> a]
    ELSE LET w == VecRemove(v, idx)
         IN  IF w = <<>> THEN [tabs |-> <<new_untitled(1)>>, active |-> 0]
             ELSE [tabs |-> w,
                   active |-> IF a >= Len(w) THEN Len(w) - 1 ELSE a]

\* The tab pushed for a file that was read.
opened_tab(fs, id, path) ==
    Tab(id, path,
        maybe_disable_highlighting(fs, path, detect_language_from_path(path)),
        FALSE,
        EditorState(split_lines(fs[path].text), Cursor(0, 0)))

\* What open_dialog_add_tab (once the dialog has returned a path) and
\* open_path_in_tab do with the path: focus the tab that has it, or read
\* the file and push a tab for it, or report the failed read.
OpenPath(ev, path) ==
    LET idx == find_open_tab_index(tabs, path)
        v == Append(tabs, opened_tab(files, next_tab_id(tabs), path))
    IN  /\ ~panicked
        /\ last' = Event(ev, NoKey)
        /\ UNCHANGED <<scroll_top, viewport_h, panicked, envVars,
                 synVars>>
        /\ IF idx >= 0
           THEN /\ active_tab' = idx
                /\ status' = <<"Focused", path>>
                /\ UNCHANGED tabs
           ELSE IF ReadOk(files, path)
           THEN /\ Fits(v)
                /\ tabs' = v
                /\ active_tab' = Len(v) - 1
                /\ status' = <<"Opened", path>>
           ELSE /\ status' = <<"Open failed", path>>
                /\ UNCHANGED <<tabs, active_tab>>

open_dialog_add_tab(path) == OpenPath("OpenDialog", path)

open_path_in_tab(path) == OpenPath("OpenSidebar", path)

\* Mutant of save_result: a failed write marks the tab clean.
save_result_marks_clean(v, tab_index, path, ok) ==
    IF ok
    THEN [v EXCEPT ![tab_index + 1].path = path,
                   ![tab_index + 1].language = detect_language_from_path(path),
                   ![tab_index + 1].dirty = FALSE]
    ELSE [v EXCEPT ![tab_index + 1].dirty = FALSE]

\* save_tab_to_path, the match on the result of std::fs::write: the tabs it
\* leaves in the signal.
save_result(v, tab_index, path, ok) ==
    IF ok
    THEN [v EXCEPT ![tab_index + 1].path = path,
                   ![tab_index + 1].language = detect_language_from_path(path),
                   ![tab_index + 1].dirty = FALSE]
    ELSE v

save_tab_to_path(ev, tab_index, path) ==
    /\ last' = Event(ev, NoKey)
    /\ UNCHANGED <<active_tab, scroll_top, viewport_h, panicked, call, manifest,
                   modalVars, synVars>>
    /\ IF tab_index >= Len(tabs)
       THEN UNCHANGED <<tabs, status, files>>
       ELSE LET text == join_lines(tabs[tab_index + 1].editor.lines)
                ok == WriteOk(files, path)
            IN  /\ files' = IF ok THEN fs_write(files, path, text) ELSE files
                /\ tabs' = save_result(tabs, tab_index, path, ok)
                /\ status' = IF ok THEN <<"Saved", path>>
                              ELSE <<"Save failed", path>>

\* The save dialog is dismissed (or there is no active tab): nothing is done.
dialog_cancelled ==
    /\ last' = Event("Dismissed", NoKey)
    /\ UNCHANGED <<tabs, active_tab, scroll_top, viewport_h, status, panicked,
                   envVars, synVars>>

\* Ctrl+S: the tab's own path, or the path the save dialog returns.
save_active_or_save_as(picked) ==
    /\ ~panicked
    /\ IF active_tab >= Len(tabs) THEN dialog_cancelled
       ELSE IF tabs[active_tab + 1].path # NoPath
       THEN save_tab_to_path("Save", active_tab, tabs[active_tab + 1].path)
       ELSE IF picked # NoPath
       THEN save_tab_to_path("Save", active_tab, picked)
       ELSE dialog_cancelled

\* Ctrl+Shift+S
save_as_active(picked) ==
    /\ ~panicked
    /\ IF active_tab >= Len(tabs) \/ picked = NoPath
       THEN dialog_cancelled
       ELSE save_tab_to_path("SaveAs", active_tab, picked)

(***************************************************************************)
(* Functions called directly, on arguments of the caller's choice; call    *)
(* keeps the arguments and the result.                                     *)
(***************************************************************************)
NoCall == [fn |-> "none"]

callFrame ==
    <<tabs, active_tab, scroll_top, viewport_h, status, panicked, last, files,
      manifest, modalVars, synVars>>

VisibleRangeCall(st, vh, total_lines) ==
    /\ call' = [fn |-> "visible_range", scroll_top |-> st, viewport_h |-> vh,
                total_lines |-> total_lines,
                ret |-> visible_range(st, vh, total_lines)]
    /\ UNCHANGED callFrame

MaybeDisableCall(path, language) ==
    /\ call' = [fn |-> "maybe_disable_highlighting", path |-> path,
                language |-> language,
                ret |-> maybe_disable_highlighting(files, path, language)]
    /\ UNCHANGED callFrame

InsertCharCall(s, ch) ==
    /\ call' = [fn |-> "insert_char", s |-> s, ch |-> ch,
                ret |-> insert_char(s, ch)]
    /\ UNCHANGED callFrame

InsertStrCall(s, t) ==
    /\ call' = [fn |-> "insert_str", s |-> s, t |-> t,
                ret |-> insert_str(s, t)]
    /\ UNCHANGED callFrame

CloseTabCall(v, a, idx) ==
    /\ call' = [fn |-> "close_tab_immediately", v |-> v, a |-> a, idx |-> idx,
                ret |-> close_tab_immediately(v, a, idx)]
    /\ UNCHANGED callFrame

\* split_lines on a text, and join_lines on what it returned.
SplitJoinCall(text) ==
    /\ call' = [fn |-> "split_lines", text |-> text,
                ret |-> split_lines(text),
                joined |-> join_lines(split_lines(text))]
    /\ UNCHANGED callFrame

DetectLanguageCall(path) ==
    /\ call' = [fn |-> "detect_language_from_path", path |-> path,
                ret |-> detect_language_from_path(path)]
    /\ UNCHANGED callFrame

(***************************************************************************)
(* Rule sets.  A pattern is what the regex crate compiles it to: Lit(s)    *)
(* matches the bytes s, Plus(cs) one or more characters of the class cs    *)
(* (greedy), and Invalid is a pattern source Regex::new rejects.           *)
(***************************************************************************)
\* Optional fields: None and Some(x).
None == <<>>

Some(x) == <<x>>

Lit(s) == [kind |-> "lit", s |-> s, cs |-> {}]

Plus(cs) == [kind |-> "plus", s |-> <<>>, cs |-> cs]

Invalid == [kind |-> "invalid", s |-> <<>>, cs |-> {}]

RegexNewOk(pattern) == pattern.kind # "invalid"

\* Characters of the highlighted lines: 'e', 't', 'l', 'x', '5' and U+00E9.
ChE == <<101>>

ChT == <<116>>

Ch5 == <<53>>

Letters == {ChE, ChT, <<108>>, <<120>>, ChEAcute}

Digits == {<<d>> : d \in 48..57}

\* The character that starts at byte offset pos of a line.
CharAt(line, pos) ==
    SubSeq(line, pos + 1, Min(Len(line), pos + utf8_char_width(line[pos + 1])))

\* The end of the run of class characters that starts at pos.
RECURSIVE RunOfClass(_, _, _)
RunOfClass(cs, line, pos) ==
    IF pos < Len(line) /\ CharAt(line, pos) \in cs
    THEN RunOfClass(cs, line, pos + Len(CharAt(line, pos)))
    ELSE pos

\* The end of the pattern's match that starts at byte offset start, or -1.
MatchEnd(re, line, start) ==
    IF re.kind = "lit"
    THEN IF start + Len(re.s) <= Len(line)
            /\ SubSeq(line, start + 1, start + Len(re.s)) = re.s
         THEN start + Len(re.s)
         ELSE -1
    ELSE LET e == RunOfClass(re.cs, line, start)
         IN  IF e > start THEN e ELSE -1

\* Regex::find_iter: the leftmost match, then the leftmost match after it,
\* and so on; matches start on character boundaries and do not overlap.
RECURSIVE FindFrom(_, _, _)
FindFrom(re, line, pos) ==
    IF pos >= Len(line) THEN <<>>
    ELSE LET e == MatchEnd(re, line, pos)
         IN  IF e >= 0
             THEN <<[start |-> pos, end |-> e]>> \o FindFrom(re, line, e)
             ELSE FindFrom(re, line, pos + Len(CharAt(line, pos)))

find_iter(re, line) == FindFrom(re, line, 0)

\* The rule-set sources of the syntax directory, as toml::from_str reads
\* them into SidelFile (an absent optional field is None), or
\* "malformed" when it rejects the text, or "missing" when there is no file.
SidelRule(name, pattern, color, priority) ==
    [name |-> name, pattern |-> pattern, color |-> color, priority |-> priority]

RustSidelV1 ==
    [kind |-> "toml", default_color |-> None,
     rule |-> <<SidelRule("word", Plus(Letters), "B", None),
                SidelRule("bad", Invalid, "A", Some(9)),
                SidelRule("kw", Lit(ChE \o ChT), "A", Some(7)),
                SidelRule("num", Plus(Digits), "B", Some(5)),
                SidelRule("tt", Lit(ChT \o ChT), "C", Some(7))>>]

RustSidelV2 ==
    [kind |-> "toml", default_color |-> Some("D"),
     rule |-> <<SidelRule("kw", Lit(ChE \o ChT), "A", Some(7))>>]

LetSidel ==
    [kind |-> "toml", default_color |-> Some("D"),
     rule |-> <<SidelRule("num", Plus(Digits), "B", Some(5)),
                SidelRule("let", Lit(<<108, 101, 116>>), "A", Some(10))>>]

Malformed == [kind |-> "malformed", default_color |-> None, rule |-> <<>>]

Missing == [kind |-> "missing", default_color |-> None, rule |-> <<>>]

\* A plain.sidel that somebody put into the syntax directory.
PlainSidel ==
    [kind |-> "toml", default_color |-> Some("P"),
     rule |-> <<SidelRule("word", Plus(Letters), "B", None)>>]

\* load_sidel_text: the override directory, the disk, the embedded copy;
\* the model has one place, whose rust.sidel can be edited (disk).
load_sidel_text(language, d) ==
    CASE language = "rust" -> IF d = 1 THEN RustSidelV1 ELSE RustSidelV2
      [] language = "letlang" -> LetSidel
      [] language = "broken" -> Malformed
      [] language = "plain" -> PlainSidel
      [] OTHER -> Missing

Languages == {"rust", "letlang", "broken", "nosrc", "plain"}

default_color == "#D4D4D4"

default_priority == 0

SyntaxOf(dc, rules) == [default_color |-> dc, rules |-> rules]

fallback_syntax == SyntaxOf(default_color, <<>>)

\* rules.sort_by(|a, b| b.priority.cmp(&a.priority)): a stable sort into
\* descending priority, here by insertion behind the rules that are not
\* lower.
\* Mutant of InsertByPriority: the rule goes before the rules of its own
\* priority.
RECURSIVE InsertByPriority_before_equals(_, _)
InsertByPriority_before_equals(sorted, r) ==
    IF sorted = <<>> THEN <<r>>
    ELSE IF Head(sorted).priority > r.priority
    THEN <<Head(sorted)>> \o InsertByPriority_before_equals(Tail(sorted), r)
    ELSE <<r>> \o sorted

RECURSIVE InsertByPriority(_, _)
InsertByPriority(sorted, r) ==
    IF sorted = <<>> THEN <<r>>
    ELSE IF Head(sorted).priority >= r.priority
    THEN <<Head(sorted)>> \o InsertByPriority(Tail(sorted), r)
    ELSE <<r>> \o sorted

RECURSIVE SortByPriority(_, _)
SortByPriority(rules, acc) ==
    IF rules = <<>> THEN acc
    ELSE SortByPriority(Tail(rules), InsertByPriority(acc, Head(rules)))

\* parse_sidel on a text toml accepts: rules whose pattern compiles, with
\* serde's defaults filled in, sorted.
compile_rule(r) ==
    [name |-> r.name, regex |-> r.pattern, color |-> r.color,
     priority |-> IF r.priority = None THEN default_priority
                  ELSE r.priority[1]]

\* Mutant of parse_sidel: one pattern that does not compile loses every rule.
parse_sidel_all_or_nothing(content) ==
    LET ok == SelectSeq(content.rule, LAMBDA r : RegexNewOk(r.pattern))
        rules == [i \in 1..Len(ok) |-> compile_rule(ok[i])]
    IN  SyntaxOf(IF content.default_color = None THEN default_color
                 ELSE content.default_color[1],
                 IF Len(ok) = Len(content.rule)
                 THEN SortByPriority(rules, <<>>) ELSE <<>>)

parse_sidel(content) ==
    LET ok == SelectSeq(content.rule, LAMBDA r : RegexNewOk(r.pattern))
        rules == [i \in 1..Len(ok) |-> compile_rule(ok[i])]
    IN  SyntaxOf(IF content.default_color = None THEN default_color
                 ELSE content.default_color[1],
                 SortByPriority(rules, <<>>))

(***************************************************************************)
(* highlight_line, after load_syntax has returned syn.                     *)
(***************************************************************************)
NoColor == "<none>"

\* Mutant of apply_rule: a later rule recolors units already assigned.
apply_rule_overwrites(rule, line, color_at) ==
    LET ms == find_iter(rule.regex, line)
    IN  [i \in 1..Len(line) |->
            IF \E k \in 1..Len(ms) :
                   ms[k].start < i /\ i <= Min(ms[k].end, Len(line))
            THEN rule.color
            ELSE color_at[i]]

\* One turn of `for rule in &syn.rules`: every match colors its units that
\* have no color yet.
apply_rule(rule, line, color_at) ==
    LET ms == find_iter(rule.regex, line)
    IN  [i \in 1..Len(line) |->
            IF color_at[i] = NoColor
               /\ \E k \in 1..Len(ms) :
                      ms[k].start < i /\ i <= Min(ms[k].end, Len(line))
            THEN rule.color
            ELSE color_at[i]]

RECURSIVE apply_rules(_, _, _)
apply_rules(rules, line, color_at) ==
    IF rules = <<>> THEN color_at
    ELSE apply_rules(Tail(rules), line, apply_rule(Head(rules), line, color_at))

\* The inner while loop: the first offset j > i whose color differs.
RECURSIVE RunEnd(_, _, _)
RunEnd(colors, j, cur) ==
    IF j < Len(colors) /\ colors[j + 1] = cur THEN RunEnd(colors, j + 1, cur)
    ELSE j

\* Mutant of collapse_spans: one span per byte, equal neighbours not merged.
RECURSIVE collapse_spans_unmerged(_, _, _)
collapse_spans_unmerged(line, colors, i) ==
    IF i >= Len(line) THEN <<>>
    ELSE <<[text |-> SubSeq(line, i + 1, i + 1), color |-> colors[i + 1]]>>
             \o collapse_spans_unmerged(line, colors, i + 1)

\* The outer while loop: spans of equal color, from offset i on.
RECURSIVE collapse_spans(_, _, _)
collapse_spans(line, colors, i) ==
    IF i >= Len(line) THEN <<>>
    ELSE LET j == RunEnd(colors, i + 1, colors[i + 1])
         IN  <<[text |-> SubSeq(line, i + 1, j), color |-> colors[i + 1]]>>
                 \o collapse_spans(line, colors, j)

\* line[i..j] panics unless both ends are character boundaries.
SlicesOk(line, spans) ==
    \A k \in 1..Len(spans) :
        LET before == SumLen([m \in 1..(k - 1) |-> spans[m].text])
        IN  /\ is_char_boundary(line, before)
            /\ is_char_boundary(line, before + Len(spans[k].text))

\* Mutant of highlight_with: the early return for no rules or an empty line
\* is left out.
highlight_with_no_early_return(syn, line) ==
    LET color_at == apply_rules(syn.rules, line,
                                [i \in 1..Len(line) |-> NoColor])
        colors == [i \in 1..Len(line) |->
                      IF color_at[i] = NoColor THEN syn.default_color
                      ELSE color_at[i]]
        spans == collapse_spans(line, colors, 0)
    IN  [spans |-> spans, panic |-> ~SlicesOk(line, spans)]

highlight_with(syn, line) ==
    IF syn.rules = <<>> \/ line = <<>>
    THEN [spans |-> <<[text |-> line, color |-> syn.default_color]>>,
          panic |-> FALSE]
    ELSE LET color_at == apply_rules(syn.rules, line,
                                     [i \in 1..Len(line) |-> NoColor])
             colors == [i \in 1..Len(line) |->
                           IF color_at[i] = NoColor THEN syn.default_color
                           ELSE color_at[i]]
             spans == collapse_spans(line, colors, 0)
         IN  [spans |-> spans, panic |-> ~SlicesOk(line, spans)]

(***************************************************************************)
(* load_syntax and highlight_line as steps of an execution context.  The   *)
(* cache is locked for the lookup and again for the insert; reading and    *)
(* parsing the rule set happens between the two, with the lock released.   *)
(***************************************************************************)
Contexts == {"task", "render"}

\* What a language without a cache entry maps to.
NoEntry == [default_color |-> "<no entry>", rules |-> <<>>]

IdleCtx ==
    [pc |-> "idle", op |-> "none", language |-> "plain", line |-> <<>>,
     syntax |-> NoEntry, hit |-> FALSE, spans |-> <<>>]

shellVars ==
    <<tabs, active_tab, scroll_top, viewport_h, status, last, envVars>>

\* Mutant of manifest_contains: every name passes for a known language.
manifest_contains_any(language) == TRUE

\* MANIFEST.languages.contains(language)
manifest_contains(language) == language \in ManifestLanguages

\* Mutant of cache_insert: the no-rules fallback is not stored.
cache_insert_skips_fallback(c, language, syntax) ==
    IF syntax.rules = <<>> THEN c ELSE [c EXCEPT ![language] = syntax]

\* Mutant of cache_insert: nothing is stored.
cache_insert_dropped(c, language, syntax) == c

\* Mutant of cache_insert: the entry is stored with its first rule only.
cache_insert_torn(c, language, syntax) ==
    [c EXCEPT ![language] =
        [syntax EXCEPT !.rules = IF @ = <<>> THEN @ ELSE <<@[1]>>]]

\* SYNTAX_CACHE.lock().unwrap().insert(language.to_string(), syntax.clone())
cache_insert(c, language, syntax) == [c EXCEPT ![language] = syntax]

\* load_syntax returns syntax to context c; a highlight_line call goes on
\* to compute its spans.
Return(c, syntax, hit) ==
    LET r == IF ctx[c].op = "highlight"
             THEN highlight_with(syntax, ctx[c].line)
             ELSE [spans |-> <<>>, panic |-> FALSE]
    IN  /\ ctx' = [ctx EXCEPT ![c].pc = "done", ![c].syntax = syntax,
                              ![c].hit = hit, ![c].spans = r.spans]
        /\ panicked' = r.panic

\* The call and its locked lookup; on a miss, the manifest test.
Call(c, op, language, line) ==
    /\ ~panicked
    /\ ctx[c].pc \in {"idle", "done"}
    /\ UNCHANGED <<shellVars, disk, cache, reads, parses, inserts>>
    /\ LET called == [IdleCtx EXCEPT !.op = op, !.language = language,
                                     !.line = line]
       IN  IF cache[language] # NoEntry
           THEN LET r == IF op = "highlight"
                         THEN highlight_with(cache[language], line)
                         ELSE [spans |-> <<>>, panic |-> FALSE]
                IN  /\ ctx' = [ctx EXCEPT ![c] =
                                  [called EXCEPT !.pc = "done",
                                                 !.syntax = cache[language],
                                                 !.hit = TRUE,
                                                 !.spans = r.spans]]
                    /\ panicked' = r.panic
           ELSE IF ~manifest_contains(language)
           THEN LET r == IF op = "highlight"
                         THEN highlight_with(fallback_syntax, line)
                         ELSE [spans |-> <<>>, panic |-> FALSE]
                IN  /\ ctx' = [ctx EXCEPT ![c] =
                                  [called EXCEPT !.pc = "done",
                                                 !.syntax = fallback_syntax,
                                                 !.spans = r.spans]]
                    /\ panicked' = r.panic
           ELSE /\ ctx' = [ctx EXCEPT ![c] = [called EXCEPT !.pc = "miss"]]
                /\ panicked' = panicked

\* load_sidel_text and parse_sidel, with the cache unlocked.
ReadParse(c) ==
    /\ ~panicked
    /\ ctx[c].pc = "miss"
    /\ LET language == ctx[c].language
           content == load_sidel_text(language, disk)
           syntax == IF content.kind = "toml" THEN parse_sidel(content)
                     ELSE fallback_syntax
       IN  /\ reads' = [reads EXCEPT ![language] = @ + 1]
           /\ parses' = IF content.kind = "missing" THEN parses
                        ELSE [parses EXCEPT ![language] = @ + 1]
           /\ ctx' = [ctx EXCEPT ![c].pc = "parsed", ![c].syntax = syntax]
    /\ UNCHANGED <<shellVars, panicked, disk, cache, inserts>>

\* The locked insert, and the return.
Insert(c) ==
    /\ ~panicked
    /\ ctx[c].pc = "parsed"
    /\ cache' = cache_insert(cache, ctx[c].language, ctx[c].syntax)
    /\ inserts' = [inserts EXCEPT ![ctx[c].language] = @ + 1]
    /\ Return(c, ctx[c].syntax, FALSE)
    /\ UNCHANGED <<shellVars, disk, reads, parses>>

\* rust.sidel is edited in the syntax directory.
EditSource ==
    /\ ~panicked
    /\ disk' = 3 - disk
    /\ UNCHANGED <<edVars, cache, ctx, reads, parses, inserts>>

InitSyntax ==
    /\ cache = [l \in Languages |-> NoEntry]
    /\ disk = 1
    /\ ctx = [c \in Contexts |-> IdleCtx]
    /\ reads = [l \in Languages |-> 0]
    /\ parses = [l \in Languages |-> 0]
    /\ inserts = [l \in Languages |-> 0]

(***************************************************************************)
(* The editing engine under key events and clicks.  The editor starts as   *)
(* the single untitled tab app() creates, or as the single tab left when a *)
(* file has been opened from that state and the untitled tab closed.       *)
(***************************************************************************)
StartTabs ==
    {<<new_untitled(1)>>}
        \cup {<<opened_tab(FsContent, 2, path)>> :
                  path \in {p \in Paths : /\ ReadOk(FsContent, p)
                                          /\ ByteLen(FsContent[p].text)
                                                 <= MaxBytes}}

StartStatus(v) ==
    IF v[1].path = NoPath THEN <<"", NoPath>> ELSE <<"Opened", v[1].path>>

\* app(): the dialog is closed and nothing is pending.
InitModal ==
    /\ confirm_open = FALSE
    /\ pending_action = NoPending
    /\ window = "open"
    /\ dialog = NoTask

InitEditor ==
    /\ manifest = load_manifest(ManifestToml)
    /\ InitModal
    /\ tabs \in StartTabs
    /\ active_tab = 0
    /\ scroll_top = 0
    /\ viewport_h = 600
    /\ status = StartStatus(tabs)
    /\ panicked = FALSE
    /\ last = [ev |-> "Init", key |-> NoKey, tabs |-> <<>>, active |-> 0]
    /\ files = FsContent
    /\ call = NoCall

Init == InitEditor /\ InitSyntax

Next ==
    \/ \E key \in Keys : KeyDown(key)
    \/ \E px \in ClickXs, py \in ClickYs : Click(px, py)
    \/ \E g \in ScrollGeometries : OnScroll(g)

Spec == Init /\ [][Next]_vars

(***************************************************************************)
(* The render path highlighting lines, one call after another, while the   *)
(* rule-set source may be edited.                                          *)
(***************************************************************************)
MaxHlChars == 2    \* characters in a generated line

HlChars == {ChE, ChT, ChEAcute}

RECURSIVE StringsUpTo(_)
StringsUpTo(n) ==
    IF n = 0 THEN {<<>>}
    ELSE LET S == StringsUpTo(n - 1)
         IN  S \cup {s \o ch : s \in S, ch \in HlChars}

\* "let x = 5;"
LetLine == <<108, 101, 116, 32, 120, 32, 61, 32, 53, 59>>

\* Every short line over HlChars, and "let x = 5;", "et5", "5\u00e95t",
\* "eet", "ett" and "\u00e9te".
HlLines ==
    StringsUpTo(MaxHlChars)
        \cup {LetLine, ChE \o ChT \o Ch5, Ch5 \o ChEAcute \o Ch5 \o ChT,
              ChE \o ChE \o ChT, ChE \o ChT \o ChT,
              ChEAcute \o ChT \o ChE}

InitAppStart == InitEditor /\ tabs = <<new_untitled(1)>>

InitHl == InitAppStart /\ InitSyntax

NextHl ==
    \/ \E language \in Languages, line \in HlLines :
           Call("render", "highlight", language, line)
    \/ ReadParse("render")
    \/ Insert("render")
    \/ EditSource

SpecHl == InitHl /\ [][NextHl]_vars

(***************************************************************************)
(* Two execution contexts calling load_syntax concurrently, the rule-set   *)
(* source unchanging.                                                      *)
(***************************************************************************)
InitCache == InitAppStart /\ InitSyntax

NextCache ==
    \/ \E c \in Contexts, language \in Languages :
           Call(c, "load", language, <<>>)
    \/ \E c \in Contexts : ReadParse(c)
    \/ \E c \in Contexts : Insert(c)

SpecCache == InitCache /\ [][NextCache]_vars

(***************************************************************************)
(* The shell: the untitled tab and tabs opened from the file dialog and    *)
(* the sidebar, edited at the cursor, saved, and switched between, and the *)
(* pane scrolled.                                                          *)
(***************************************************************************)
MaxShellBytes == 2    \* elements of text held by all tabs of the shell

ShellKeys == {CharKey(<<ChSpace>>), Key("Enter")}

OpenPaths == {"locked.rs", "big.rs"}

SavePaths == {"locked.rs", NoPath}

ShellGeometries == {<<0, 600>>, <<40, 20>>}

\* The scroll offsets the pane can report: none past the end of the content
\* of the active tab.
ScrollableTo(g) ==
    LET total == IF active_tab < Len(tabs)
                 THEN Len(tabs[active_tab + 1].editor.lines)
                 ELSE Len(DefaultEditorState.lines)
    IN  g[1] <= Max(0, total * line_px + 2 * PAD_Y_PX - g[2])

\* A key event, within the shell's bound on text.
ShellKeyDown(key) == KeyDown(key) /\ TabsBytes(tabs') <= MaxShellBytes

ShellScroll(g) == ScrollableTo(g) /\ OnScroll(g)

InitShell == InitAppStart /\ InitSyntax

NextShell ==
    \/ \E key \in ShellKeys : ShellKeyDown(key)
    \/ \E idx \in 0..(MaxTabs - 1) : TabClick(idx)
    \/ \E path \in OpenPaths : open_dialog_add_tab(path)
    \/ \E path \in OpenPaths : open_path_in_tab(path)
    \/ \E picked \in SavePaths : save_active_or_save_as(picked)
    \/ \E picked \in SavePaths : save_as_active(picked)
    \/ \E g \in ShellGeometries : ShellScroll(g)

SpecShell == InitShell /\ [][NextShell]_vars

(***************************************************************************)
(* Key events among several tabs, one of them opened from a file, while    *)
(* the render path loads the rule set of its language.                     *)
(***************************************************************************)
FrameKeys ==
    {CharKey(<<ChSpace>>), Key("Backspace"), Key("ArrowLeft"),
     Key("ArrowRight")}

InitFrame == InitAppStart /\ InitSyntax

NextFrame ==
    \/ \E key \in FrameKeys : ShellKeyDown(key)
    \/ \E idx \in 0..(MaxTabs - 1) : TabClick(idx)
    \/ create_new_tab
    \/ open_path_in_tab("edge.rs")
    \/ Call("render", "load", "rust", <<>>)
    \/ ReadParse("render")
    \/ Insert("render")

SpecFrame == InitFrame /\ [][NextFrame]_vars

(***************************************************************************)
(* Closing tabs and the window: the confirmation dialog, its pending       *)
(* action, and the tasks that await the save-file dialog.  The pane keeps  *)
(* the keyboard focus while the confirmation dialog is shown, and the main *)
(* window stays interactive while the native file dialog is open, so key   *)
(* events are taken at any time; clicks on the tab bar and the menu are    *)
(* taken when the dialog's backdrop does not cover them.                   *)
(***************************************************************************)
\* The highest id given to a tab.
MaxTabId == MaxTabs

\* The key events taken: Backspace, which marks the active tab modified
\* whatever its document is.
TabsKeys == {Key("Backspace")}

TabsOpenPaths == {"empty.txt"}

TabsSavePaths == {"empty.txt", "locked.rs", NoPath}

Running == ~panicked /\ window = "open"

\* The signals and the disk after save_tab_to_path(tabs, tab_index, status,
\* path) on tabs v, disk fs and status st.
saved_tab_to_path(v, fs, st, tab_index, path) ==
    IF tab_index >= Len(v) THEN [tabs |-> v, files |-> fs, status |-> st]
    ELSE LET text == join_lines(v[tab_index + 1].editor.lines)
             ok == WriteOk(fs, path)
         IN  [tabs |-> save_result(v, tab_index, path, ok),
              files |-> IF ok THEN fs_write(fs, path, text) ELSE fs,
              status |-> IF ok THEN <<"Saved", path>>
                         ELSE <<"Save failed", path>>]

\* The same after the optional save of the Save button's task: picked is
\* the tab's own path or what the dialog returned, NoPath when dismissed.
maybe_saved(tab_index, picked) ==
    IF picked = NoPath
    THEN [tabs |-> tabs, files |-> files, status |-> status]
    ELSE saved_tab_to_path(tabs, files, status, tab_index, picked)

\* A key event that reaches the pane.
TabsKeyDown(key) == window = "open" /\ KeyDown(key)

\* Ctrl+N and the "+" button
TabsNewTab ==
    /\ window = "open"
    /\ next_tab_id(tabs) <= MaxTabId
    /\ create_new_tab

\* Ctrl+O, once the open dialog has returned a path
TabsOpen(path) ==
    /\ window = "open"
    /\ find_open_tab_index(tabs, path) >= 0 \/ next_tab_id(tabs) <= MaxTabId
    /\ open_dialog_add_tab(path)

\* A click on a tab.
TabsTabClick(idx) ==
    /\ window = "open"
    /\ ~confirm_open
    /\ TabClick(idx)

\* The tab-close button and Ctrl+W: a modified tab opens the dialog, any
\* other is closed.
request_close(ev, idx) ==
    /\ Running
    /\ idx < Len(tabs)
    /\ last' = Event(ev, NoKey)
    /\ IF tabs[idx + 1].dirty
       THEN /\ pending_action' = CloseTab(idx, tabs[idx + 1].id)
            /\ confirm_open' = TRUE
            /\ UNCHANGED <<tabs, active_tab>>
       ELSE LET r == close_tab_immediately(tabs, active_tab, idx)
            IN  /\ tabs' = r.tabs
                /\ active_tab' = r.active
                /\ UNCHANGED <<pending_action, confirm_open>>
    /\ UNCHANGED <<scroll_top, viewport_h, status, panicked, files, call,
                   manifest, window, dialog, synVars>>

TabCloseClick(idx) == ~confirm_open /\ request_close("TabClose", idx)

CtrlW == Running /\ request_close("CtrlW", active_tab)

\* The Exit menu item and Ctrl+Q: active_dirty opens the dialog, otherwise
\* the window closes.
request_exit(ev) ==
    /\ Running
    /\ last' = Event(ev, NoKey)
    /\ IF active_tab < Len(tabs) /\ tabs[active_tab + 1].dirty
       THEN /\ pending_action' = ExitApp(tabs[active_tab + 1].id)
            /\ confirm_open' = TRUE
            /\ UNCHANGED window
       ELSE /\ window' = "closed"
            /\ UNCHANGED <<pending_action, confirm_open>>
    /\ UNCHANGED <<tabs, active_tab, scroll_top, viewport_h, status, panicked,
                   files, call, manifest, dialog, synVars>>

ExitClick == ~confirm_open /\ request_exit("ExitMenu")

CtrlQ == Running /\ request_exit("CtrlQ")

\* Ctrl+S: save_active_or_save_as up to its await.  The index of the active
\* tab is taken before the file dialog is shown.
SaveRequested ==
    /\ Running
    /\ active_tab < Len(tabs)
    /\ last' = Event("Save", NoKey)
    /\ IF tabs[active_tab + 1].path # NoPath
       THEN LET r == saved_tab_to_path(tabs, files, status, active_tab,
                                       tabs[active_tab + 1].path)
            IN  /\ tabs' = r.tabs
                /\ files' = r.files
                /\ status' = r.status
                /\ UNCHANGED dialog
       ELSE /\ dialog = NoTask
            /\ dialog' = Awaiting("Save", active_tab, tabs[active_tab + 1].id)
            /\ UNCHANGED <<tabs, files, status>>
    /\ UNCHANGED <<active_tab, scroll_top, viewport_h, panicked, call,
                   manifest, confirm_open, pending_action, window, synVars>>

\* Ctrl+Shift+S: save_as_active up to its await.
SaveAsRequested ==
    /\ Running
    /\ active_tab < Len(tabs)
    /\ dialog = NoTask
    /\ last' = Event("SaveAs", NoKey)
    /\ dialog' = Awaiting("SaveAs", active_tab, tabs[active_tab + 1].id)
    /\ UNCHANGED <<tabs, active_tab, scroll_top, viewport_h, status, panicked,
                   files, call, manifest, confirm_open, pending_action,
                   window, synVars>>

\* The backdrop and the Cancel button.
ModalCancel ==
    /\ Running
    /\ confirm_open
    /\ last' = Event("Cancel", NoKey)
    /\ confirm_open' = FALSE
    /\ pending_action' = NoPending
    /\ UNCHANGED <<tabs, active_tab, scroll_top, viewport_h, status, panicked,
                   files, call, manifest, window, dialog, synVars>>

\* The Discard button.
ModalDiscard ==
    /\ Running
    /\ confirm_open
    /\ last' = Event("Discard", NoKey)
    /\ confirm_open' = FALSE
    /\ pending_action' = NoPending
    /\ CASE pending_action.kind = "CloseTab" ->
              LET r == close_tab_immediately(tabs, active_tab,
                                             pending_action.idx)
              IN  /\ tabs' = r.tabs
                  /\ active_tab' = r.active
                  /\ UNCHANGED window
         [] pending_action.kind = "ExitApp" ->
              /\ window' = "closed"
              /\ UNCHANGED <<tabs, active_tab>>
         [] OTHER -> UNCHANGED <<tabs, active_tab, window>>
    /\ UNCHANGED <<scroll_top, viewport_h, status, panicked, files, call,
                   manifest, dialog, synVars>>

\* Mutant of finish_pending: the tab is closed whether the save cleared its
\* dirty flag or not.
finish_pending_closes_anyway(kind, i, r) ==
    /\ files' = r.files
    /\ status' = r.status
    /\ pending_action' = NoPending
    /\ IF kind = "CloseTab"
       THEN LET c == close_tab_immediately(r.tabs, active_tab, i)
            IN  /\ tabs' = c.tabs
                /\ active_tab' = c.active
                /\ UNCHANGED window
       ELSE /\ tabs' = r.tabs
            /\ UNCHANGED active_tab
            /\ window' = IF active_tab < Len(r.tabs)
                            /\ ~r.tabs[active_tab + 1].dirty
                         THEN "closed" ELSE window

\* The end of the Save button's task, from the point where the optional save
\* has left the signals r: the tab is closed, or the window, if the tab at
\* the index is not modified; the pending action is reset.
finish_pending(kind, i, r) ==
    /\ files' = r.files
    /\ status' = r.status
    /\ pending_action' = NoPending
    /\ IF kind = "CloseTab"
       THEN LET c == IF i < Len(r.tabs) /\ ~r.tabs[i + 1].dirty
                     THEN close_tab_immediately(r.tabs, active_tab, i)
                     ELSE [tabs |-> r.tabs, active |-> active_tab]
            IN  /\ tabs' = c.tabs
                /\ active_tab' = c.active
                /\ UNCHANGED window
       ELSE /\ tabs' = r.tabs
            /\ UNCHANGED active_tab
            /\ window' = IF active_tab < Len(r.tabs)
                            /\ ~r.tabs[active_tab + 1].dirty
                         THEN "closed" ELSE window

\* The Save button, and its task up to the await of the file dialog or, for
\* a tab that has a path, to its end.
ModalSave ==
    /\ Running
    /\ confirm_open
    /\ last' = Event("ModalSave", NoKey)
    /\ confirm_open' = FALSE
    /\ UNCHANGED <<scroll_top, viewport_h, panicked, call, manifest, synVars>>
    /\ LET kind == pending_action.kind
           i == IF kind = "ExitApp" THEN active_tab ELSE pending_action.idx
       IN  IF kind = "None" \/ i >= Len(tabs)
           THEN /\ pending_action' = NoPending
                /\ UNCHANGED <<tabs, active_tab, status, files, window, dialog>>
           ELSE IF tabs[i + 1].path # NoPath
           THEN /\ finish_pending(kind, i, maybe_saved(i, tabs[i + 1].path))
                /\ UNCHANGED dialog
           ELSE /\ dialog = NoTask
                /\ dialog' = Awaiting(kind, i, pending_action.id)
                /\ UNCHANGED <<tabs, active_tab, status, files, window,
                               pending_action>>

\* AsyncFileDialog::save_file returns to the task that awaits it: picked is
\* the path chosen, NoPath when the dialog was dismissed.
FileDialogReturns(picked) ==
    /\ Running
    /\ dialog # NoTask
    /\ last' = Event("FileDialog", NoKey)
    /\ dialog' = NoTask
    /\ UNCHANGED <<scroll_top, viewport_h, panicked, call, manifest,
                   confirm_open, synVars>>
    /\ LET r == maybe_saved(dialog.idx, picked)
       IN  IF dialog.task \in {"Save", "SaveAs"}
           THEN /\ tabs' = r.tabs
                /\ files' = r.files
                /\ status' = r.status
                /\ UNCHANGED <<active_tab, pending_action, window>>
           ELSE finish_pending(dialog.task, dialog.idx, r)

InitTabs == InitAppStart /\ InitSyntax

NextTabs ==
    \/ \E key \in TabsKeys : TabsKeyDown(key)
    \/ TabsNewTab
    \/ \E path \in TabsOpenPaths : TabsOpen(path)
    \/ \E idx \in 0..(MaxTabs - 1) : TabsTabClick(idx)
    \/ \E idx \in 0..(MaxTabs - 1) : TabCloseClick(idx)
    \/ CtrlW
    \/ ExitClick
    \/ CtrlQ
    \/ SaveRequested
    \/ SaveAsRequested
    \/ ModalCancel
    \/ ModalDiscard
    \/ ModalSave
    \/ \E picked \in TabsSavePaths : FileDialogReturns(picked)

SpecTabs == InitTabs /\ [][NextTabs]_vars

(***************************************************************************)
(* Tabs and the files they were read from and written to: text typed into  *)
(* tabs, files opened, and tabs saved through Save and Save As.            *)
(***************************************************************************)
MaxSyncBytes == 1    \* elements of text held by all tabs

SyncKeys == {CharKey(<<ChSpace>>), Key("Backspace")}

SyncKeyDown(key) == KeyDown(key) /\ TabsBytes(tabs') <= MaxSyncBytes

InitSync == InitAppStart /\ InitSyntax

NextSync ==
    \/ \E key \in SyncKeys : SyncKeyDown(key)
    \/ TabsNewTab
    \/ \E path \in TabsOpenPaths : TabsOpen(path)
    \/ \E idx \in 0..(MaxTabs - 1) : TabsTabClick(idx)
    \/ \E idx \in 0..(MaxTabs - 1) : TabCloseClick(idx)
    \/ SaveRequested
    \/ SaveAsRequested
    \/ ModalCancel
    \/ ModalDiscard
    \/ \E picked \in TabsSavePaths : FileDialogReturns(picked)

SpecSync == InitSync /\ [][NextSync]_vars

(***************************************************************************)
(* visible_range, maybe_disable_highlighting, insert_char, insert_str and *)
(* split_lines with join_lines called on arguments of the caller's choice, *)
(* the file system as it is at start.                                      *)
(***************************************************************************)
CallScrollTops == {-20, 0, 19, 20, 45, 700, 19990}

CallViewports == {0, 1, 20, 30, 600}

CallTotals == {0, 1, 3, 36, 1000}

\* Documents and cursors, those out of the document's range included.
CallEditorStates ==
    {EditorState(ls, Cursor(l, c)) :
        ls \in {<<>>, <<<<>>>>, <<ChEAcute>>, <<ChSpace, ChEAcute>>},
        l \in 0..MaxLines, c \in 0..2}

\* Texts for insert_str, as their characters: "", "\n", " \n", "\u00e9\n "
\* and the four spaces of the Tab key.
CallTexts ==
    {<<>>, <<ChNewline>>, <<ChSpace, ChNewline>>,
     <<ChEAcute, ChNewline, ChSpace>>,
     <<ChSpace, ChSpace, ChSpace, ChSpace>>}

MaxTextChars == 3    \* characters in a text given to split_lines

MaxCallTabs == 3     \* tabs in a list given to close_tab_immediately

\* Tab lists for close_tab_immediately: untitled tabs with ids 1..n, the
\* odd ones modified.
CallTabLists ==
    {[i \in 1..n |-> [new_untitled(i) EXCEPT !.dirty = (i % 2 = 1)]] :
        n \in 1..MaxCallTabs}

\* Every text of up to n characters out of ' ', '\n' and U+00E9.
RECURSIVE TextsUpTo(_)
TextsUpTo(n) ==
    IF n = 0 THEN {<<>>}
    ELSE LET S == TextsUpTo(n - 1)
         IN  S \cup {s \o ch : s \in S, ch \in {ChSpace, ChNewline, ChEAcute}}

InitCalls == InitAppStart /\ InitSyntax

NextCalls ==
    \/ \E st \in CallScrollTops, vh \in CallViewports, n \in CallTotals :
           VisibleRangeCall(st, vh, n)
    \/ \E path \in Paths, language \in Languages :
           MaybeDisableCall(path, language)
    \/ \E s \in CallEditorStates, ch \in {ChSpace, ChEAcute} :
           InsertCharCall(s, ch)
    \/ \E s \in CallEditorStates, t \in CallTexts : InsertStrCall(s, t)
    \/ \E text \in TextsUpTo(MaxTextChars) : SplitJoinCall(text)
    \/ \E v \in CallTabLists :
           \E a \in 0..(Len(v) - 1), idx \in 0..Len(v) : CloseTabCall(v, a, idx)

SpecCalls == InitCalls /\ [][NextCalls]_vars

(***************************************************************************)
(* Lines highlighted from either context, one call at a time, while the    *)
(* rule-set source may be edited between and during the calls.             *)
(***************************************************************************)
\* "", "et" and "tt"
SeqLines == {<<>>, ChE \o ChT, ChT \o ChT}

\* A call made when no call is in progress.
SeqCall(c, language, line) ==
    /\ \A d \in Contexts : ctx[d].pc \in {"idle", "done"}
    /\ Call(c, "highlight", language, line)

InitSeq == InitAppStart /\ InitSyntax

NextSeq ==
    \/ \E c \in Contexts, language \in Languages, line \in SeqLines :
           SeqCall(c, language, line)
    \/ \E c \in Contexts : ReadParse(c)
    \/ \E c \in Contexts : Insert(c)
    \/ EditSource

SpecSeq == InitSeq /\ [][NextSeq]_vars

(***************************************************************************)
(* The process started with any of the manifests: paths are resolved to    *)
(* languages and the render path loads rule sets.                          *)
(***************************************************************************)
InitManifest ==
    /\ tabs = <<new_untitled(1)>>
    /\ active_tab = 0
    /\ scroll_top = 0
    /\ viewport_h = 600
    /\ status = StartStatus(tabs)
    /\ panicked = FALSE
    /\ last = [ev |-> "Init", key |-> NoKey, tabs |-> <<>>, active |-> 0]
    /\ files = FsContent
    /\ call = NoCall
    /\ manifest \in {load_manifest(text) : text \in ManifestTexts}
    /\ InitModal
    /\ InitSyntax

NextManifest ==
    \/ \E path \in Paths \cup BarePaths : DetectLanguageCall(path)
    \/ \E language \in Languages : Call("render", "load", language, <<>>)
    \/ ReadParse("render")
    \/ Insert("render")

SpecManifest == InitManifest /\ [][NextManifest]_vars

(***************************************************************************)
(* Properties of the editing engine.                                       *)
(***************************************************************************)
\* The editor a key event ran on, and the editor it left.
Pre == last.tabs[last.active + 1].editor

Post == tabs[active_tab + 1].editor

KeyWas(k) == last.ev = "KeyDown" /\ last.key.k = k /\ last.active < Len(last.tabs)

ValidCursor(s) ==
    /\ s.cursor.line < Len(s.lines)
    /\ s.cursor.col <= Len(s.lines[s.cursor.line + 1])

\* C1: in every reachable state, every tab's cursor.line is an index into
\* its lines and cursor.col is at most the byte length of that line.
C1_CursorInvariant ==
    \A i \in 1..Len(tabs) : ValidCursor(tabs[i].editor)

\* C1 witness: ArrowUp moved to a shorter line and clamped the column.
C1_Witness ==
    /\ KeyWas("ArrowUp")
    /\ Post.cursor.line = Pre.cursor.line - 1
    /\ Post.cursor.col < Pre.cursor.col
    /\ Post.cursor.col = Len(Post.lines[Post.cursor.line + 1])

\* C2: no editing operation panics.
C2_NoPanic == ~panicked

\* C3: every tab's document has at least one line, and a tab opened from an
\* empty file holds exactly one empty line.
C3_NeverEmpty ==
    \A i \in 1..Len(tabs) :
        /\ Len(tabs[i].editor.lines) >= 1
        /\ (last.ev = "Init" /\ tabs[i].path \in Paths
                /\ FsContent[tabs[i].path] = File(<<>>))
               => tabs[i].editor.lines = <<<<>>>>

\* C3 witness: Backspace merged the two lines of a document into one.
C3_Witness ==
    /\ KeyWas("Backspace")
    /\ Len(Pre.lines) = 2
    /\ Len(Post.lines) = 1

\* C8: Backspace at (line L > 0, col 0) removes one line, makes line L-1 the
\* old line L-1 followed by the old line L, keeps every other line and their
\* order, and puts the cursor at (L-1, old length of line L-1).
C8_LineMerge ==
    (KeyWas("Backspace") /\ Pre.cursor.col = 0 /\ Pre.cursor.line > 0) =>
        LET L == Pre.cursor.line
        IN  /\ ~panicked
            /\ Len(Post.lines) = Len(Pre.lines) - 1
            /\ Post.lines[L] = Pre.lines[L] \o Pre.lines[L + 1]
            /\ Len(Post.lines[L]) = Len(Pre.lines[L]) + Len(Pre.lines[L + 1])
            /\ \A i \in 1..(L - 1) : Post.lines[i] = Pre.lines[i]
            /\ \A i \in (L + 1)..Len(Post.lines) : Post.lines[i] = Pre.lines[i + 1]
            /\ Post.cursor = Cursor(L - 1, Len(Pre.lines[L]))

\* C8 witness: two non-empty lines of a three-line document were merged.
C8_Witness ==
    /\ KeyWas("Backspace")
    /\ Pre.cursor.col = 0
    /\ Pre.cursor.line > 0
    /\ Len(Pre.lines) = 3
    /\ Pre.lines[Pre.cursor.line] # <<>>
    /\ Pre.lines[Pre.cursor.line + 1] # <<>>
    /\ Pre.lines[Pre.cursor.line] # Pre.lines[Pre.cursor.line + 1]

\* What C9 says Enter leaves behind, given the editor it ran on.
SplitResult(pre, post) ==
    LET L == pre.cursor.line + 1
        C == pre.cursor.col
    IN  /\ Len(post.lines) = Len(pre.lines) + 1
        /\ post.lines[L] = SubSeq(pre.lines[L], 1, C)
        /\ post.lines[L + 1] = SubSeq(pre.lines[L], C + 1, Len(pre.lines[L]))
        /\ \A i \in 1..(L - 1) : post.lines[i] = pre.lines[i]
        /\ \A i \in (L + 2)..Len(post.lines) : post.lines[i] = pre.lines[i - 1]
        /\ post.cursor = Cursor(L, 0)

\* C9: Enter at a valid cursor (L, C) adds one line, splits line L into its
\* prefix [0,C) and suffix [C,end), keeps every other line and their order,
\* puts the cursor at (L+1, 0), and a Backspace right after it restores the
\* lines and the cursor.
C9_LineSplit ==
    (KeyWas("Enter") /\ ValidCursor(Pre)) =>
        /\ ~panicked
        /\ SplitResult(Pre, Post)
        /\ backspace(Post) = Done(Pre)

\* C9 where the split does not panic: the rest of the claim.
C9_SplitUnlessPanic ==
    (KeyWas("Enter") /\ ValidCursor(Pre) /\ ~panicked) =>
        /\ SplitResult(Pre, Post)
        /\ backspace(Post) = Done(Pre)

\* C10: Backspace at col > 0 removes the one unit at col-1 (the line is one
\* unit shorter, col one less, everything else unchanged); Backspace at
\* (0, 0) changes neither the document nor the cursor.
C10_InLineBackspace ==
    /\ (KeyWas("Backspace") /\ Pre.cursor.col > 0) =>
           LET L == Pre.cursor.line + 1
               C == Pre.cursor.col
           IN  /\ ~panicked
               /\ Len(Post.lines) = Len(Pre.lines)
               /\ Post.lines[L] =
                      SubSeq(Pre.lines[L], 1, C - 1)
                          \o SubSeq(Pre.lines[L], C + 1, Len(Pre.lines[L]))
               /\ Len(Post.lines[L]) = Len(Pre.lines[L]) - 1
               /\ \A i \in 1..Len(Pre.lines) : i # L => Post.lines[i] = Pre.lines[i]
               /\ Post.cursor = Cursor(L - 1, C - 1)
    /\ (KeyWas("Backspace") /\ Pre.cursor = Cursor(0, 0)) =>
           ~panicked /\ Post = Pre

\* What insertChar(ch) at (L, C) is to leave of the editor pre: line L with ch
\* between its prefix [0,C) and its suffix [C,end), the cursor at
\* (L, C + width of ch), everything else as it was.
InsertResult(pre, ch, post) ==
    LET L == pre.cursor.line + 1
        C == pre.cursor.col
    IN  /\ Len(post.lines) = Len(pre.lines)
        /\ post.lines[L] =
               SubSeq(pre.lines[L], 1, C) \o ch
                   \o SubSeq(pre.lines[L], C + 1, Len(pre.lines[L]))
        /\ \A i \in 1..Len(pre.lines) : i # L => post.lines[i] = pre.lines[i]
        /\ post.cursor = Cursor(L - 1, C + Len(ch))

OneChar == KeyWas("Character") /\ Len(last.key.c) = 1

\* C11: a one-character key at a valid cursor (L, C) puts the character
\* between the prefix [0,C) and the suffix [C,end) of line L, advances col by
\* the character's UTF-8 length, and leaves cursor.line, the line count and
\* every other line unchanged.
C11_InsertChar ==
    (OneChar /\ ValidCursor(Pre)) =>
        /\ ~panicked
        /\ InsertResult(Pre, last.key.c[1], Post)

\* C11 where the insertion does not panic: the rest of the claim.
C11_InsertUnlessPanic ==
    (OneChar /\ ValidCursor(Pre) /\ ~panicked) =>
        InsertResult(Pre, last.key.c[1], Post)

\* C12: insert_char called with cursor.line >= the number of lines, whatever
\* the line and col, does not panic, leaves one line more than there was,
\* and leaves a cursor inside the document.
C12_OutOfRangeInsert ==
    (call.fn = "insert_char" /\ call.s.cursor.line >= Len(call.s.lines)) =>
        /\ ~call.ret.panic
        /\ Len(call.ret.s.lines) = Len(call.s.lines) + 1
        /\ ValidCursor(call.ret.s)

\* The keys handle_key maps to insert_char, insert_str, backspace or newline.
Modifying(key) ==
    \/ key.k \in {"Backspace", "Enter", "Tab"}
    \/ key.k = "Character" /\ Len(key.c) = 1

DirtyStep ==
    /\ (last'.ev = "KeyDown" /\ Modifying(last'.key))
           => tabs'[active_tab + 1].dirty
    /\ (\/ last'.ev = "KeyDown" /\ ~Modifying(last'.key)
        \/ last'.ev = "Click")
           => /\ Len(tabs') = Len(tabs)
              /\ \A i \in 1..Len(tabs) : tabs'[i].dirty = tabs[i].dirty

\* C13: a key event that maps to insertChar, Tab, backspace or newline
\* leaves the active tab dirty; an arrow key, an unrecognised key or a click
\* changes no tab's dirty flag.
C13_ModifiedSignal == [][active_tab < Len(tabs) => DirtyStep]_vars

\* C13 where the key's operation does not panic: the rest of the claim.
C13_DirtyUnlessPanic ==
    [][(active_tab < Len(tabs) /\ ~panicked') => DirtyStep]_vars

(***************************************************************************)
(* Properties of the shell.                                                *)
(***************************************************************************)
\* The step was an open whose read failed, or a save whose write failed.
OpenFailedStep ==
    last'.ev \in {"OpenDialog", "OpenSidebar"} /\ status'[1] = "Open failed"

SaveFailedStep ==
    last'.ev \in {"Save", "SaveAs"} /\ status'[1] = "Save failed"

IoFailureStep ==
    (OpenFailedStep \/ SaveFailedStep) =>
        /\ tabs' = tabs
        /\ active_tab' = active_tab
        /\ files' = files
        /\ UNCHANGED <<scroll_top, viewport_h, panicked>>

\* C14: a failed open (dialog or sidebar) and a failed save change neither
\* the tab list, the active index nor any tab (lines, cursor, path, language,
\* dirty flag); only the status message changes.
C14_IoFailureUnchanged == [][IoFailureStep]_vars

\* C14 witness: a save of a dirty tab has failed, with two tabs open.
C14_Witness ==
    /\ last.ev \in {"Save", "SaveAs"}
    /\ status[1] = "Save failed"
    /\ Len(tabs) = 2
    /\ tabs[active_tab + 1].dirty

\* C14, the other case reached: an open has failed with a dirty tab open.
C14_OpenFailedReached ==
    /\ last.ev \in {"OpenDialog", "OpenSidebar"}
    /\ status[1] = "Open failed"
    /\ \E i \in 1..Len(tabs) : tabs[i].dirty

\* The last step resolved the active tab's language from its path.
OpenedNow ==
    last.ev \in {"OpenDialog", "OpenSidebar"} /\ status[1] = "Opened"

SavedNow == last.ev \in {"Save", "SaveAs"} /\ status[1] = "Saved"

AtOrAboveThreshold(path) ==
    MetadataOk(files, path) /\ FsLen(files, path) >= DISABLE_AT_BYTES

\* C15: right after a tab is opened (dialog or sidebar) or saved (Save or
\* Save As), if its file on disk is at or above the threshold its language
\* is "plain".
C15_SizePolicy ==
    (OpenedNow \/ SavedNow) =>
        LET t == tabs[active_tab + 1]
        IN  AtOrAboveThreshold(t.path) => t.language = "plain"

\* C15 for the opens alone.
C15_PolicyOnOpen ==
    OpenedNow =>
        LET t == tabs[active_tab + 1]
        IN  AtOrAboveThreshold(t.path) => t.language = "plain"

\* C16: maybe_disable_highlighting(path, language) is "plain" when the
\* file's size is known and at least DISABLE_AT_BYTES, and is the language
\* it was given when the size is below that or unknown.
C16_SizeOverride ==
    (call.fn = "maybe_disable_highlighting") =>
        IF MetadataOk(files, call.path)
           /\ ByteLen(files[call.path].text) >= DISABLE_AT_BYTES
        THEN call.ret = "plain"
        ELSE call.ret = call.language

\* C16 witness: a file of exactly the threshold, given as a colored
\* language, comes back "plain".
C16_Witness ==
    /\ call.fn = "maybe_disable_highlighting"
    /\ ByteLen(files[call.path].text) = DISABLE_AT_BYTES
    /\ call.language = "rust"
    /\ call.ret = "plain"

\* C16, the other cases reached: a byte below the threshold and a size that
\* cannot be determined keep the language.
C16_BelowReached ==
    /\ call.fn = "maybe_disable_highlighting"
    /\ MetadataOk(files, call.path)
    /\ ByteLen(files[call.path].text) = DISABLE_AT_BYTES - 1
    /\ call.ret = "rust"

C16_UnknownReached ==
    /\ call.fn = "maybe_disable_highlighting"
    /\ ~MetadataOk(files, call.path)
    /\ call.ret = "rust"

\* The number of lines the render pass has to show.
RenderTotal ==
    IF active_tab < Len(tabs) THEN Len(tabs[active_tab + 1].editor.lines)
    ELSE 1

\* C17: whatever scroll offset and viewport height the render pass holds,
\* the range it shows of a document of total_lines > 0 lines has
\* start <= end <= total_lines, and the two paddings and the shown lines add
\* up to total_lines * line_height.
C17_StableGeometry ==
    LET r == render_range
    IN  RenderTotal > 0 =>
            /\ r.start <= r.end
            /\ r.end <= RenderTotal
            /\ r.top_h + (r.end - r.start) * line_px + r.bottom_h
                   = RenderTotal * line_px

\* C17 without start <= end: the rest of the claim.
C17_EndAndSum ==
    LET r == render_range
    IN  RenderTotal > 0 =>
            /\ r.end <= RenderTotal
            /\ r.top_h + (r.end - r.start) * line_px + r.bottom_h
                   = RenderTotal * line_px

\* floor(a / b) and ceil(a / b) for b > 0, by their defining inequalities.
FloorOf(a, b) == CHOOSE k \in -2..1000 : k * b <= a /\ a < (k + 1) * b

CeilOf(a, b) == CHOOSE k \in -2..1000 : (k - 1) * b < a /\ a <= k * b

\* C18: visible_range is (0, 0, 0, 0) for no lines; otherwise
\* start = max(0, floor(scroll_top / line_height)),
\* end = min(start + ceil(viewport_height / line_height) + 20, total_lines),
\* the paddings are start and (total_lines - end) line heights, at most
\* ceil(viewport_height / line_height) + 20 lines are shown, and
\* (700, 600, 1000) at line height 20 gives (35, 85, 700, 18300).
C18_ViewportFormula ==
    (call.fn = "visible_range") =>
        LET r == call.ret
            n == call.total_lines
            start == Max(0, FloorOf(call.scroll_top, line_px))
            shown == CeilOf(call.viewport_h, line_px) + 20
        IN  /\ n = 0 => r = [start |-> 0, end |-> 0, top_h |-> 0, bottom_h |-> 0]
            /\ n > 0 =>
                   /\ r.start = start
                   /\ r.end = Min(start + shown, n)
                   /\ r.top_h = start * line_px
                   /\ r.bottom_h = (n - r.end) * line_px
                   /\ r.end - r.start <= shown
            /\ (/\ call.scroll_top = 700 /\ call.viewport_h = 600
                /\ n = 1000 /\ line_px = 20)
                   => r = [start |-> 35, end |-> 85, top_h |-> 700,
                           bottom_h |-> 18300]

\* C18 witness: the call (700, 600, 1000) has returned (35, 85, 700, 18300).
C18_Witness ==
    /\ call.fn = "visible_range"
    /\ call.scroll_top = 700 /\ call.viewport_h = 600
    /\ call.total_lines = 1000
    /\ line_px = 20
    /\ call.ret = [start |-> 35, end |-> 85, top_h |-> 700, bottom_h |-> 18300]

\* C18, other cases reached: no lines, and a negative scroll offset.
C18_EmptyReached ==
    /\ call.fn = "visible_range"
    /\ call.total_lines = 0 /\ call.scroll_top = 700
    /\ call.ret.end = 0

C18_NegativeReached ==
    /\ call.fn = "visible_range"
    /\ call.total_lines = 36 /\ call.scroll_top < 0 /\ call.viewport_h = 30
    /\ call.ret.start = 0 /\ call.ret.end = 22

(***************************************************************************)
(* Properties of the highlighter and the rule cache.                       *)
(***************************************************************************)
\* The render context's call, once highlight_line has returned.
R == ctx["render"]

HlDone == R.pc = "done" /\ R.op = "highlight"

RECURSIVE ConcatTexts(_)
ConcatTexts(spans) ==
    IF spans = <<>> THEN <<>> ELSE spans[1].text \o ConcatTexts(Tail(spans))

\* The color the spans give to unit i (1-based) of the line.
RECURSIVE UnitColor(_, _)
UnitColor(spans, i) ==
    IF i <= Len(spans[1].text) THEN spans[1].color
    ELSE UnitColor(Tail(spans), i - Len(spans[1].text))

\* The rules (by position in the definition) with a match covering unit i.
Covering(syn, line, i) ==
    {r \in 1..Len(syn.rules) :
        \E k \in 1..Len(find_iter(syn.rules[r].regex, line)) :
            LET m == find_iter(syn.rules[r].regex, line)[k]
            IN  m.start < i /\ i <= m.end}

ExpectedColor(syn, line, i) ==
    LET cov == Covering(syn, line, i)
    IN  IF cov = {} THEN syn.default_color
        ELSE syn.rules[CHOOSE r \in cov : \A q \in cov : r <= q].color

\* C4: the span texts of a highlighted line concatenate to the line, no
\* span of a non-empty line is empty, and adjacent spans differ in color.
C4_LosslessMergedPartition ==
    HlDone =>
        /\ ~panicked
        /\ ConcatTexts(R.spans) = R.line
        /\ R.line # <<>> => \A k \in 1..Len(R.spans) : R.spans[k].text # <<>>
        /\ \A k \in 1..(Len(R.spans) - 1) :
               R.spans[k].color # R.spans[k + 1].color

\* C4 witness: a line with a two-byte character whose spans include one
\* that merges the matches of two rules of the same color ("t5").
C4_Witness ==
    /\ HlDone
    /\ R.language = "rust"
    /\ R.line = Ch5 \o ChEAcute \o Ch5 \o ChT
    /\ Len(R.spans) = 1
    /\ R.spans[1].color = "B"

\* C5: every unit has the color of the first rule, in the definition's
\* order, one of whose matches covers it, or default_color if none does;
\* and "let x = 5;" under {let, 10, A}, {digits, 5, B}, default D gives
\* let->A, " x = "->D, 5->B, ;->D.
C5_PriorityPrecedence ==
    HlDone =>
        /\ \A i \in 1..Len(R.line) :
               UnitColor(R.spans, i) = ExpectedColor(R.syntax, R.line, i)
        /\ (R.language = "letlang" /\ R.line = LetLine) =>
               R.spans = <<[text |-> <<108, 101, 116>>, color |-> "A"],
                           [text |-> <<32, 120, 32, 61, 32>>, color |-> "D"],
                           [text |-> <<53>>, color |-> "B"],
                           [text |-> <<59>>, color |-> "D"]>>

\* C5 witness: "let x = 5;" has been highlighted under the let rules.
C5_Witness ==
    /\ HlDone
    /\ R.language = "letlang"
    /\ R.line = LetLine
    /\ Len(R.syntax.rules) = 2

\* C5, the overlap case: a unit covered by matches of two rules of
\* different colors has been highlighted.
C5_OverlapReached ==
    /\ HlDone
    /\ \E i \in 1..Len(R.line) :
           \E r, q \in Covering(R.syntax, R.line, i) :
               R.syntax.rules[r].color # R.syntax.rules[q].color

\* C6: a language is parsed at most once and inserted at most once, also
\* when two contexts load it concurrently.
C6_CompileOnce ==
    \A l \in Languages : parses[l] <= 1 /\ inserts[l] <= 1

\* C7: once the cache holds an entry for a manifest language the entry
\* never changes and its source is not read or parsed again, and every
\* load_syntax of a manifest language returns what the cache then holds.
C7_Step ==
    \A l \in ManifestLanguages :
        /\ cache[l] # NoEntry =>
               /\ cache'[l] = cache[l]
               /\ reads'[l] = reads[l]
               /\ parses'[l] = parses[l]
        /\ \A c \in Contexts :
               (ctx'[c].pc = "done" /\ ctx'[c] # ctx[c] /\ ctx'[c].language = l)
                   => (cache'[l] # NoEntry /\ ctx'[c].syntax = cache'[l])

C7_CacheContract == [][C7_Step]_vars

\* C7 witness: a call was served the cached no-rules fallback of a language
\* whose source does not parse, while the cache holds the rust definition
\* read before rust.sidel was edited.
C7_Witness ==
    /\ R.pc = "done"
    /\ R.hit
    /\ R.language = "broken"
    /\ R.syntax = fallback_syntax
    /\ reads["broken"] = 1
    /\ disk = 2
    /\ cache["rust"] = parse_sidel(RustSidelV1)

\* The render context's step was load_sidel_text and parse_sidel.
ReadParseStep == R.pc = "miss" /\ R'.pc = "parsed"

\* Position of the rule called name in a rule list (0 when it has none).
RulePos(rules, name) ==
    IF \E j \in 1..Len(rules) : rules[j].name = name
    THEN CHOOSE j \in 1..Len(rules) : rules[j].name = name
    ELSE 0

\* What a source that parses is to give: its default color (the neutral one
\* when it declares none), and exactly its rules whose pattern compiles,
\* by descending priority, rules of equal priority in declared order.
KeepsValidRules(src, syn) ==
    LET valid == {i \in 1..Len(src.rule) : RegexNewOk(src.rule[i].pattern)}
        prio(i) == IF src.rule[i].priority = None THEN 0
                   ELSE src.rule[i].priority[1]
        pos(i) == RulePos(syn.rules, src.rule[i].name)
    IN  /\ syn.default_color = IF src.default_color = None THEN "#D4D4D4"
                               ELSE src.default_color[1]
        /\ Len(syn.rules) = Cardinality(valid)
        /\ \A i \in valid :
               /\ pos(i) > 0
               /\ syn.rules[pos(i)].regex = src.rule[i].pattern
               /\ syn.rules[pos(i)].color = src.rule[i].color
               /\ syn.rules[pos(i)].priority = prio(i)
        /\ \A i \in 1..Len(src.rule) : i \notin valid => pos(i) = 0
        /\ \A i, k \in valid :
               (prio(i) > prio(k) \/ (prio(i) = prio(k) /\ i < k))
                   => pos(i) < pos(k)

MalformedStep ==
    /\ ReadParseStep =>
           LET src == load_sidel_text(R.language, disk)
           IN  IF src.kind = "toml" THEN KeepsValidRules(src, R'.syntax)
               ELSE R'.syntax = [default_color |-> "#D4D4D4", rules |-> <<>>]
    /\ R'.pc = "done" => R'.syntax # NoEntry

\* C19: load_syntax always returns a definition; a source that does not
\* parse (or is missing) gives the no-rules fallback with the neutral
\* default color; a rule whose pattern does not compile is left out while
\* every other rule and the declared default color are kept, in priority
\* order with declared order among equals.
C19_MalformedNeverFails == [][MalformedStep]_vars

\* C19 witness: rust.sidel with its bad rule has loaded as the four other
\* rules, and highlight_line has used them.
C19_Witness ==
    /\ HlDone /\ ~R.hit
    /\ R.language = "rust"
    /\ Len(R.syntax.rules) = 4
    /\ R.syntax.rules[1].name = "kw" /\ R.syntax.rules[2].name = "tt"
    /\ R.syntax.rules[3].name = "num" /\ R.syntax.rules[4].name = "word"

\* C19, the other case reached: the malformed source has loaded as the
\* fallback.
C19_FallbackReached ==
    /\ HlDone /\ ~R.hit
    /\ R.language = "broken"
    /\ R.syntax = [default_color |-> "#D4D4D4", rules |-> <<>>]
    /\ R.line # <<>>

\* The render context's step was a call of load_syntax for a language the
\* manifest does not have.
UnknownCallStep ==
    /\ R.pc \in {"idle", "done"}
    /\ R' # R
    /\ R'.language \notin ManifestLanguages

UnknownStep ==
    /\ UnknownCallStep =>
           /\ R'.pc = "done"
           /\ R'.syntax = [default_color |-> "#D4D4D4", rules |-> <<>>]
           /\ UNCHANGED <<reads, parses, inserts, cache>>
    /\ \A l \in Languages \ ManifestLanguages :
           cache'[l] = NoEntry /\ reads'[l] = 0

\* C20: load_syntax for a language that is not in the manifest returns the
\* no-rules fallback, reads no rule-set source and adds nothing to the
\* cache, at every call.
C20_UnknownShortCircuit == [][UnknownStep]_vars

\* C20 witness: "plain" has been loaded after another language was cached,
\* and has neither an entry nor a read.
C20_Witness ==
    /\ HlDone
    /\ R.language = "plain" /\ R.line # <<>>
    /\ R.syntax = [default_color |-> "#D4D4D4", rules |-> <<>>]
    /\ cache["plain"] = NoEntry /\ reads["plain"] = 0
    /\ cache["rust"] # NoEntry

(***************************************************************************)
(* Properties of language resolution.                                      *)
(***************************************************************************)
\* C21: load_syntax("plain") returns a definition with zero rules in every
\* cache state, whether or not the manifest declares a language named
\* plain and whatever rule-set source exists for it.
C21_PlainHasNoRules ==
    (R.pc = "done" /\ R.language = "plain") => R.syntax.rules = <<>>

\* The manifest text the process started with, told by the names it
\* declares.
DeclaredNames(text) == {text.language[i].name : i \in 1..Len(text.language)}

StartedWith == CHOOSE text \in ManifestTexts :
                   DeclaredNames(text) = manifest.languages

\* The languages of the started manifest that declare an extension equal to
\* ext once both are lowercased.
DeclaringLanguages(ext) ==
    {StartedWith.language[i].name :
        i \in {j \in 1..Len(StartedWith.language) :
                  \E k \in 1..Len(StartedWith.language[j].extensions) :
                      to_ascii_lowercase(StartedWith.language[j].extensions[k])
                          = to_ascii_lowercase(ext)}}

DetectDone == call.fn = "detect_language_from_path"

\* C22: detect_language_from_path gives the manifest language declared for
\* the path's extension, both sides lowercased; a path without extension,
\* an extension no language declares and a manifest that is missing or
\* does not parse give "plain"; the result is "plain" or a name the
\* manifest declares.
C22_DetectLanguage ==
    DetectDone =>
        LET ext == PathExt[call.path]
        IN  /\ IF ext # "" /\ DeclaringLanguages(ext) # {}
               THEN call.ret \in DeclaringLanguages(ext)
               ELSE call.ret = "plain"
            /\ call.ret = "plain" \/ call.ret \in DeclaredNames(StartedWith)
            /\ StartedWith.kind # "toml" => call.ret = "plain"

\* C22 witness: "e.RS" has resolved to rust under the manifest that writes
\* the extension as "RS".
C22_Witness ==
    /\ DetectDone
    /\ StartedWith = ManifestWithPlain
    /\ call.path = "e.RS" /\ call.ret = "rust"

\* C22, the other cases reached: a path without extension, an extension
\* nobody declares, and an absent manifest.
C22_NoExtensionReached ==
    /\ DetectDone /\ StartedWith = ManifestToml
    /\ call.path = "Makefile" /\ call.ret = "plain"

C22_NoEntryReached ==
    /\ DetectDone /\ StartedWith = ManifestToml
    /\ call.path = "empty.txt" /\ call.ret = "plain"

C22_NoManifestReached ==
    /\ DetectDone /\ manifest.languages = {}
    /\ call.path = "locked.rs" /\ call.ret = "plain"

(***************************************************************************)
(* Properties of concurrent loads.                                         *)
(***************************************************************************)
\* The complete definition of a language while its source stays as it is:
\* for a manifest language whose source parses, the source's default color
\* and all its rules that compile; otherwise the no-rules fallback.
Complete(language, syn) ==
    LET src == load_sidel_text(language, disk)
    IN  /\ syn # NoEntry
        /\ IF language \in ManifestLanguages /\ src.kind = "toml"
           THEN KeepsValidRules(src, syn)
           ELSE syn = [default_color |-> "#D4D4D4", rules |-> <<>>]

Returned(c) == ctx[c].pc = "done"

\* C23: under every interleaving of concurrent load_syntax calls, the
\* source unchanging, the cache holds for each language nothing or one
\* complete definition, every caller is given a complete definition,
\* callers of the same language are given equal definitions, and the
\* cache entry of a manifest language equals what its callers were given.
C23_NoTornCache ==
    /\ \A l \in Languages :
           cache[l] # NoEntry =>
               l \in ManifestLanguages /\ Complete(l, cache[l])
    /\ \A c \in Contexts :
           Returned(c) =>
               /\ Complete(ctx[c].language, ctx[c].syntax)
               /\ ctx[c].language \in ManifestLanguages =>
                      cache[ctx[c].language] = ctx[c].syntax
    /\ \A c, d \in Contexts :
           (Returned(c) /\ Returned(d) /\ ctx[c].language = ctx[d].language)
               => ctx[c].syntax = ctx[d].syntax

\* C23 witness: both contexts missed on rust, each read, parsed and
\* inserted it, and both hold the definition the cache holds.
C23_Witness ==
    /\ \A c \in Contexts :
           Returned(c) /\ ctx[c].language = "rust" /\ ~ctx[c].hit
    /\ inserts["rust"] = 2
    /\ Len(cache["rust"].rules) = 4
    /\ ctx["task"].syntax = cache["rust"]
    /\ ctx["render"].syntax = cache["rust"]

(***************************************************************************)
(* Properties of repeated highlighting.                                    *)
(***************************************************************************)
Highlighted(c) == ctx[c].pc = "done" /\ ctx[c].op = "highlight"

\* C24: two calls of highlight_line with the same language and the same
\* line return the same span list, whatever calls were made and whatever
\* happened to the source between them, and whether the cache was cold or
\* warm at either call.
C24_Deterministic ==
    \A c, d \in Contexts :
        (/\ Highlighted(c) /\ Highlighted(d)
         /\ ctx[c].language = ctx[d].language
         /\ ctx[c].line = ctx[d].line)
            => ctx[c].spans = ctx[d].spans

\* C24 witness: "et" was highlighted as rust on a cold cache; then
\* rust.sidel was edited and letlang loaded; then "et" was highlighted as
\* rust again, from the cache, with the same spans.
C24_Witness ==
    /\ Highlighted("task") /\ Highlighted("render")
    /\ ctx["task"].language = "rust" /\ ctx["render"].language = "rust"
    /\ ctx["task"].line = ChE \o ChT /\ ctx["render"].line = ChE \o ChT
    /\ ~ctx["task"].hit /\ ctx["render"].hit
    /\ disk = 2
    /\ cache["letlang"] # NoEntry
    /\ ctx["task"].spans = ctx["render"].spans
    /\ Len(ctx["task"].spans) = 1

(***************************************************************************)
(* Properties of rule order.                                               *)
(***************************************************************************)
\* The versions of the source a definition of the language can have been
\* read from.
SourcesOf(language) == {load_sidel_text(language, d) : d \in {1, 2}}

\* Where the source declares the rule called name (0 when it does not).
DeclaredAt(src, name) ==
    IF \E i \in 1..Len(src.rule) : src.rule[i].name = name
    THEN CHOOSE i \in 1..Len(src.rule) : src.rule[i].name = name
    ELSE 0

\* The rules of syn stand by priority, highest first, rules of one priority
\* as src declares them, and a rule src gives no priority has priority 0.
OrderedAsDeclared(src, syn) ==
    LET n == Len(syn.rules)
        at(i) == DeclaredAt(src, syn.rules[i].name)
    IN  /\ \A i \in 1..n :
               /\ at(i) > 0
               /\ src.rule[at(i)].priority = None => syn.rules[i].priority = 0
               /\ src.rule[at(i)].priority # None =>
                      syn.rules[i].priority = src.rule[at(i)].priority[1]
        /\ \A i, j \in 1..n :
               i < j =>
                   /\ syn.rules[i].priority >= syn.rules[j].priority
                   /\ syn.rules[i].priority = syn.rules[j].priority
                          => at(i) < at(j)

LoadedDefinitions ==
    {<<l, cache[l]>> : l \in {k \in Languages : cache[k] # NoEntry}}
        \cup {<<ctx[c].language, ctx[c].syntax>> :
                  c \in {d \in Contexts : ctx[d].pc \in {"parsed", "done"}}}

\* C25: in every loaded definition the rules stand in non-increasing
\* priority, rules of equal priority in the order the source declares them,
\* and a rule declared without priority has priority 0.
C25_RuleOrder ==
    \A ld \in LoadedDefinitions :
        \E src \in SourcesOf(ld[1]) : OrderedAsDeclared(src, ld[2])

\* C25 witness: the cached rust definition has kw before tt, both of
\* priority 7, then num, and last word, declared first without priority.
C25_Witness ==
    /\ cache["rust"] # NoEntry
    /\ Len(cache["rust"].rules) = 4
    /\ cache["rust"].rules[1].name = "kw" /\ cache["rust"].rules[1].priority = 7
    /\ cache["rust"].rules[2].name = "tt" /\ cache["rust"].rules[2].priority = 7
    /\ cache["rust"].rules[3].priority = 5
    /\ cache["rust"].rules[4].name = "word"
    /\ cache["rust"].rules[4].priority = 0
    /\ DeclaredAt(RustSidelV1, "word") = 1

(***************************************************************************)
(* Properties of the single-span result.                                   *)
(***************************************************************************)
\* C26: when the definition has no rules or the line is empty,
\* highlight_line returns exactly one span whose text is the whole line
\* (the empty text for the empty line) and whose color is the definition's
\* default color.
C26_FallbackSpan ==
    \A c \in Contexts :
        (Highlighted(c) /\ (ctx[c].syntax.rules = <<>> \/ ctx[c].line = <<>>))
            => /\ Len(ctx[c].spans) = 1
               /\ ctx[c].spans[1].text = ctx[c].line
               /\ ctx[c].spans[1].color = ctx[c].syntax.default_color

\* C26 witness: the empty line highlighted as letlang, which has rules, is
\* one empty span in letlang's default color.
C26_Witness ==
    /\ Highlighted("render")
    /\ ctx["render"].language = "letlang"
    /\ ctx["render"].syntax.rules # <<>>
    /\ ctx["render"].line = <<>>
    /\ ctx["render"].spans = <<[text |-> <<>>, color |-> "D"]>>

\* C26, the other case reached: a line with text highlighted with the
\* no-rules fallback.
C26_NoRulesReached ==
    /\ Highlighted("render")
    /\ ctx["render"].language = "nosrc"
    /\ ctx["render"].line = ChE \o ChT
    /\ ctx["render"].spans = <<[text |-> ChE \o ChT, color |-> "#D4D4D4"]>>

(***************************************************************************)
(* Properties of cursor movement.                                          *)
(***************************************************************************)
\* Length of line i (0-based) of the editor the key event ran on.
PreLen(i) == Len(Pre.lines[i + 1])

MovedTo(line, col) ==
    /\ ~panicked
    /\ Post.lines = Pre.lines
    /\ Post.cursor = [line |-> line, col |-> col]

\* C27: ArrowLeft with col > 0 takes one from col; at col 0 of a line after
\* the first it goes to the end of the line before; at (0, 0) it changes
\* nothing.  ArrowRight before the end of the line adds one to col; at the
\* end of a line that is not the last it goes to column 0 of the next line;
\* at the end of the last line it changes nothing.  No line's text changes.
C27_HorizontalMoves ==
    LET l == Pre.cursor.line
        c == Pre.cursor.col
    IN  /\ KeyWas("ArrowLeft") =>
               IF c > 0 THEN MovedTo(l, c - 1)
               ELSE IF l > 0 THEN MovedTo(l - 1, PreLen(l - 1))
               ELSE MovedTo(0, 0)
        /\ KeyWas("ArrowRight") =>
               IF c < PreLen(l) THEN MovedTo(l, c + 1)
               ELSE IF l + 1 < Len(Pre.lines) THEN MovedTo(l + 1, 0)
               ELSE MovedTo(l, c)

\* C27 witness: ArrowLeft at column 0 went to the end of the line before,
\* which has text.
C27_Witness ==
    /\ KeyWas("ArrowLeft")
    /\ Pre.cursor.col = 0 /\ Pre.cursor.line > 0
    /\ Post.cursor.line = Pre.cursor.line - 1
    /\ Post.cursor.col = PreLen(Pre.cursor.line - 1)
    /\ Post.cursor.col > 0

\* C27, other cases reached: ArrowRight wrapped to the next line; ArrowLeft
\* at (0, 0) and ArrowRight at the end of the text stayed.
C27_RightWrapReached ==
    /\ KeyWas("ArrowRight")
    /\ Pre.cursor.col = PreLen(Pre.cursor.line) /\ Pre.cursor.col > 0
    /\ Post.cursor = [line |-> Pre.cursor.line + 1, col |-> 0]

C27_StopsReached ==
    \/ /\ KeyWas("ArrowLeft") /\ Pre.cursor = [line |-> 0, col |-> 0]
       /\ Post = Pre /\ Len(Pre.lines) > 1
    \/ /\ KeyWas("ArrowRight") /\ Pre.cursor.line = Len(Pre.lines) - 1
       /\ Pre.cursor.col = PreLen(Pre.cursor.line)
       /\ Post = Pre /\ Len(Pre.lines) > 1

\* C28: ArrowUp below the first line and ArrowDown above the last change
\* cursor.line by one and set col to the smaller of col and the target
\* line's length; ArrowUp on the first line and ArrowDown on the last
\* change nothing; going onto a shorter line and back leaves col at the
\* clamped value.
C28_VerticalMoves ==
    LET l == Pre.cursor.line
        c == Pre.cursor.col
    IN  /\ KeyWas("ArrowUp") =>
               IF l > 0 THEN MovedTo(l - 1, Min(c, PreLen(l - 1)))
               ELSE MovedTo(l, c)
        /\ KeyWas("ArrowDown") =>
               IF l + 1 < Len(Pre.lines)
               THEN /\ MovedTo(l + 1, Min(c, PreLen(l + 1)))
                    /\ move_up(Post).s.cursor
                           = [line |-> l, col |-> Min(c, PreLen(l + 1))]
               ELSE MovedTo(l, c)

\* C28 witness: ArrowDown went onto a shorter line and clamped the column,
\* and ArrowUp from there does not bring the column back.
C28_Witness ==
    /\ KeyWas("ArrowDown")
    /\ Post.cursor.line = Pre.cursor.line + 1
    /\ Pre.cursor.col > PreLen(Post.cursor.line)
    /\ Post.cursor.col = PreLen(Post.cursor.line)
    /\ move_up(Post).s.cursor.line = Pre.cursor.line
    /\ move_up(Post).s.cursor.col < Pre.cursor.col

\* C28, the other case reached: ArrowDown on the last line of several
\* stayed.
C28_LastLineReached ==
    /\ KeyWas("ArrowDown")
    /\ Len(Pre.lines) > 1 /\ Pre.cursor.line = Len(Pre.lines) - 1
    /\ Post = Pre

(***************************************************************************)
(* Properties of insert_str.                                               *)
(***************************************************************************)
FourSpaces == ChSpace \o ChSpace \o ChSpace \o ChSpace

\* C29: insert_str leaves what insert_char leaves when applied to each
\* character in turn: the text is in the current line at the cursor, with
\* any newline characters in it, the number of lines is as before, and col
\* is further by the byte length of the text; the Tab key inserts four
\* spaces this way.
C29_InsertText ==
    (KeyWas("Tab") /\ ValidCursor(Pre)) =>
        /\ ~panicked
        /\ InsertResult(Pre, FourSpaces, Post)

\* C29 where the insertion does not panic: the Tab key.
C29_TabUnlessPanic ==
    (KeyWas("Tab") /\ ValidCursor(Pre) /\ ~panicked) =>
        InsertResult(Pre, FourSpaces, Post)

RECURSIVE Flatten(_)
Flatten(t) == IF t = <<>> THEN <<>> ELSE Head(t) \o Flatten(Tail(t))

\* C29 where the insertion does not panic: insert_str called directly, on
\* texts with newline characters too.
C29_TextUnlessPanic ==
    (call.fn = "insert_str" /\ ValidCursor(call.s) /\ ~call.ret.panic) =>
        InsertResult(call.s, Flatten(call.t), call.ret.s)

C29_NewlineReached ==
    /\ call.fn = "insert_str" /\ ~call.ret.panic
    /\ call.t = <<ChEAcute, ChNewline, ChSpace>>
    /\ call.s.lines = <<ChEAcute>> /\ call.s.cursor = Cursor(0, 2)
    /\ call.ret.s.lines = <<ChEAcute \o ChEAcute \o ChNewline \o ChSpace>>
    /\ call.ret.s.cursor = Cursor(0, 6)

(***************************************************************************)
(* Properties of split_lines and join_lines.                               *)
(***************************************************************************)
SplitDone == call.fn = "split_lines"

Separators(text) == Cardinality({i \in 1..Len(text) : text[i] = 10})

\* C30: join_lines(split_lines(s)) = s for every text s, the empty text,
\* a text that ends with the separator and a text with separators in a row
\* included; split_lines returns at least one line (one more than there are
\* separators, none with a separator in it).
C30_SplitJoinRoundTrip ==
    SplitDone =>
        /\ call.joined = call.text
        /\ Len(call.ret) >= 1
        /\ Len(call.ret) = Separators(call.text) + 1
        /\ \A i \in 1..Len(call.ret) : Separators(call.ret[i]) = 0

\* C30 witness: " \n\n", which has two separators in a row and ends
\* with one, split into " ", "" and "" and joined back.
C30_Witness ==
    /\ SplitDone
    /\ call.text = ChSpace \o ChNewline \o ChNewline
    /\ call.ret = <<ChSpace, <<>>, <<>>>>
    /\ call.joined = call.text

\* C30, the empty text reached: one empty line, joined back to the empty
\* text.
C30_EmptyReached ==
    /\ SplitDone
    /\ call.text = <<>>
    /\ call.ret = <<<<>>>>
    /\ call.joined = <<>>

(***************************************************************************)
(* Properties of closing tabs.                                             *)
(***************************************************************************)
CloseDone == call.fn = "close_tab_immediately"

\* C36: close_tab_immediately on a tab other than the active one leaves
\* active the tab (by id) that was active.
C36_ActiveTabKept ==
    (CloseDone /\ call.idx # call.a) =>
        /\ call.ret.active < Len(call.ret.tabs)
        /\ call.ret.tabs[call.ret.active + 1].id = call.v[call.a + 1].id

\* C36 where the closed tab stands after the active one, or the active tab
\* is the last: the active tab is kept.
C36_KeptBehindActive ==
    (CloseDone /\ (call.idx > call.a \/ call.a = Len(call.v) - 1)
       /\ call.idx # call.a) =>
        call.ret.tabs[call.ret.active + 1].id = call.v[call.a + 1].id

(***************************************************************************)
(* Properties of the dirty flag and of the document's lines.               *)
(***************************************************************************)
KeyEvent == last.ev = "KeyDown" /\ last.active < Len(last.tabs)

PreDirty == last.tabs[last.active + 1].dirty

PostDirty == tabs[active_tab + 1].dirty

\* C38: a key event that leaves the text of the document as it was leaves
\* the tab's dirty flag as it was; Backspace at (0, 0) on a clean tab does
\* not mark it modified.
C38_DirtyOnlyOnChange ==
    (KeyEvent /\ Post.lines = Pre.lines) => PostDirty = PreDirty

\* C38 for every key event but Backspace at (0, 0): the rest of the claim.
C38_ExceptBackspaceAtOrigin ==
    (/\ KeyEvent /\ Post.lines = Pre.lines
     /\ ~(last.key.k = "Backspace" /\ Pre.cursor = Cursor(0, 0)))
        => PostDirty = PreDirty

NoSeparatorIn(lines) ==
    \A i \in 1..Len(lines) : \A k \in 1..Len(lines[i]) : lines[i][k] # 10

TabIds(v) == {v[i].id : i \in 1..Len(v)}

\* The step ran close_tab_immediately on the only tab: the close button or
\* Ctrl+W on an unmodified tab, Discard, or the Save button's task finding
\* the tab unmodified.
ClosesOnlyTab ==
    /\ Len(tabs) = 1
    /\ \/ last'.ev \in {"TabClose", "CtrlW"} /\ ~tabs[1].dirty
       \/ /\ last'.ev = "Discard"
          /\ pending_action.kind = "CloseTab"
          /\ pending_action.idx = 0
       \/ /\ last'.ev = "ModalSave"
          /\ pending_action.kind = "CloseTab"
          /\ pending_action.idx = 0
          /\ dialog' = dialog
          /\ ~tabs'[1].dirty
       \/ /\ last'.ev = "FileDialog"
          /\ dialog.task = "CloseTab"
          /\ dialog.idx = 0
          /\ ~tabs'[1].dirty

TabsValid == tabs # <<>> /\ active_tab < Len(tabs)

\* C37: after any sequence of new-tab, open, save, close, tab-click and
\* confirmation-dialog actions the tab list is non-empty and active_tab is
\* a valid index into it; closing the only tab leaves a single unmodified
\* untitled tab, which is active.
C37_TabsNeverEmpty ==
    /\ []TabsValid
    /\ [][ClosesOnlyTab => /\ tabs' = <<new_untitled(1)>>
                           /\ active_tab' = 0]_vars

\* The only tab, modified, has just been closed through Discard.
C37_Witness ==
    /\ last.ev = "Discard"
    /\ tabs = <<new_untitled(1)>>
    /\ active_tab = 0
    /\ window = "open"

\* The last of two tabs, active, has been closed.
C37_ClampReached ==
    /\ last.ev \in {"TabClose", "CtrlW"}
    /\ Len(tabs) = 1
    /\ tabs[1].id = 1
    /\ active_tab = 0
    /\ status[1] = "New tab"


(***************************************************************************)
(* What a key event leaves alone.                                          *)
(***************************************************************************)
\* The step is a key event taken by the editing engine.
KeyStep == last' # last /\ last'.ev = "KeyDown"

ArrowKeys == {"ArrowLeft", "ArrowRight", "ArrowUp", "ArrowDown"}

\* C31: a key event that reaches the editing engine changes nothing but the
\* lines, the cursor and the dirty flag of the active tab: every other tab,
\* the active index, every tab's id, path and language, the status, the
\* files and the rule cache stay as they were; an arrow key leaves the
\* lines and the dirty flag of the active tab as they were too.
C31_KeyEventFrame ==
    [][KeyStep =>
          /\ active_tab' = active_tab
          /\ Len(tabs') = Len(tabs)
          /\ \A i \in 1..Len(tabs) :
                 /\ tabs'[i].id = tabs[i].id
                 /\ tabs'[i].path = tabs[i].path
                 /\ tabs'[i].language = tabs[i].language
                 /\ i # active_tab + 1 => tabs'[i] = tabs[i]
          /\ UNCHANGED <<status, files, scroll_top, viewport_h, cache>>
          /\ last'.key.k \in ArrowKeys =>
                 /\ tabs'[active_tab + 1].editor.lines
                        = tabs[active_tab + 1].editor.lines
                 /\ tabs'[active_tab + 1].dirty = tabs[active_tab + 1].dirty
    ]_vars

\* A character has been typed into the first of two tabs, the second one
\* unmodified and opened from a file, with the rule set of its language in
\* the cache.
C31_Witness ==
    /\ last.ev = "KeyDown" /\ last.key.k = "Character"
    /\ Len(tabs) = 2 /\ active_tab = 0
    /\ tabs[2].path = "edge.rs" /\ ~tabs[2].dirty
    /\ tabs[2].language = "rust"
    /\ ~last.tabs[1].dirty /\ tabs[1].dirty
    /\ tabs[1].editor.lines # last.tabs[1].editor.lines
    /\ cache["rust"] # NoEntry

\* ArrowLeft has moved the cursor of an unmodified tab opened from a file.
C31_CursorMoveReached ==
    /\ last.ev = "KeyDown" /\ last.key.k = "ArrowLeft"
    /\ Len(tabs) = 2
    /\ tabs[active_tab + 1].path = "edge.rs"
    /\ ~tabs[active_tab + 1].dirty
    /\ tabs[active_tab + 1].editor.cursor
           # last.tabs[active_tab + 1].editor.cursor

(***************************************************************************)
(* Closing and unsaved changes.                                            *)
(***************************************************************************)
\* Tab i of the state before the step is in the list after it, as it was.
StaysAsItWas(i) == \E j \in 1..Len(tabs') : tabs'[j] = tabs[i]

\* Tab i of the state before the step is in the list after it, modified.
StaysModified(i) ==
    \E j \in 1..Len(tabs') : tabs'[j].id = tabs[i].id /\ tabs'[j].dirty

\* The step is one that saves, and it has written the text of tab i to a
\* file.
WrittenOut(i) ==
    /\ last'.ev \in {"Save", "ModalSave", "FileDialog"}
    /\ \E p \in Paths :
           /\ WriteOk(files, p)
           /\ status' = <<"Saved", p>>
           /\ files' = fs_write(files, p, join_lines(tabs[i].editor.lines))

\* C33: the close button and Ctrl+W leave every modified tab in the list as
\* it was; a modified tab leaves the list, or loses its dirty flag, only in
\* a Discard step or in a step that has written its text to a file.
C33_NoSilentLoss ==
    [][\A i \in 1..Len(tabs) :
           tabs[i].dirty =>
               /\ last'.ev \in {"TabClose", "CtrlW"} => StaysAsItWas(i)
               /\ \/ StaysModified(i)
                  \/ WrittenOut(i)
                  \/ last'.ev = "Discard"
    ]_vars

\* Ctrl+W on a modified tab has opened the dialog, the tab still there.
C33_Witness ==
    /\ last.ev = "CtrlW"
    /\ confirm_open
    /\ pending_action.kind = "CloseTab"
    /\ pending_action.idx = active_tab
    /\ tabs[active_tab + 1].dirty
    /\ tabs[active_tab + 1].id = pending_action.id

\* The Save button's task has written a tab to the file the dialog returned
\* and closed it.
C33_SavedAndClosedReached ==
    /\ last.ev = "FileDialog"
    /\ status = <<"Saved", "empty.txt">>
    /\ pending_action = NoPending
    /\ tabs = <<new_untitled(1)>>

\* The Save button's task has failed to write the tab and left it open.
C33_SaveFailedReached ==
    /\ last.ev = "FileDialog"
    /\ status = <<"Save failed", "locked.rs">>
    /\ pending_action = NoPending /\ ~confirm_open
    /\ Len(tabs) = 1 /\ tabs[1].dirty /\ tabs[1].path = NoPath

(***************************************************************************)
(* Tabs and files.                                                         *)
(***************************************************************************)
\* C35: after any sequence of open, Save, Save As, new-tab and close
\* actions no two tabs have the same path.
C35_OneTabPerFile ==
    \A i, j \in 1..Len(tabs) :
        (i # j /\ tabs[i].path # NoPath) => tabs[i].path # tabs[j].path

\* C35, the part about opening: opening a path that a tab has makes that
\* tab the active one and leaves the tab list as it was.
C35_OpenFocuses ==
    [][(last'.ev = "OpenDialog" /\ \E i \in 1..Len(tabs) :
                                       tabs[i].path \in TabsOpenPaths)
          => /\ tabs' = tabs
             /\ tabs[active_tab' + 1].path \in TabsOpenPaths
    ]_vars

\* A path a tab has was opened again, and that tab is the active one.
C35_FocusReached ==
    /\ last.ev = "OpenDialog"
    /\ status = <<"Focused", "empty.txt">>
    /\ Len(tabs) = 2
    /\ tabs[active_tab + 1].path = "empty.txt"

\* C34: a tab that has a path and is not modified holds lines whose join is
\* the text of the file at that path.
C34_CleanMeansInSync ==
    \A i \in 1..Len(tabs) :
        (tabs[i].path # NoPath /\ ~tabs[i].dirty)
            => /\ ReadOk(files, tabs[i].path)
               /\ join_lines(tabs[i].editor.lines) = files[tabs[i].path].text

\* C34, the part about the flag: a step that does not replace the only tab
\* clears the dirty flag of a tab only by writing the tab's text to the path
\* the tab then has.
C34_ClearedOnlyBySave ==
    [][\A i \in 1..Len(tabs), j \in 1..Len(tabs') :
           (tabs[i].dirty /\ tabs'[j].id = tabs[i].id /\ ~tabs'[j].dirty
              /\ ~ClosesOnlyTab)
               => /\ tabs'[j].path # NoPath
                  /\ status' = <<"Saved", tabs'[j].path>>
                  /\ files'[tabs'[j].path].text
                         = join_lines(tabs[i].editor.lines)
                  /\ tabs'[j].editor = tabs[i].editor
    ]_vars

\* A modified tab with text has been saved.
C34_SavedReached ==
    /\ last.ev = "FileDialog"
    /\ status = <<"Saved", "empty.txt">>
    /\ files["empty.txt"].text = ChSpace
    /\ \E i \in 1..Len(tabs) :
           /\ tabs[i].path = "empty.txt" /\ ~tabs[i].dirty
           /\ tabs[i].editor.lines = <<ChSpace>>

(***************************************************************************)
(* Deferred actions.                                                       *)
(***************************************************************************)
\* The tab at index idx is the one with the id.
TabAtIs(idx, id) == idx < Len(tabs) /\ tabs[idx + 1].id = id

\* C32: a deferred action acts on the tab it was requested for: Discard
\* closes the tab the dialog was opened for, and a task that the file dialog
\* returns to writes, or closes, the tab it was started for.
C32_DeferredHitsRequestedTab ==
    [][/\ (/\ last'.ev = "Discard"
           /\ pending_action.kind = "CloseTab"
           /\ tabs' # tabs)
          => TabAtIs(pending_action.idx, pending_action.id)
       /\ (/\ last'.ev = "FileDialog"
           /\ dialog.task \in {"Save", "SaveAs", "CloseTab"}
           /\ tabs' # tabs)
          => TabAtIs(dialog.idx, dialog.id)
    ]_vars

\* C32 for Discard alone.
C32_DiscardHitsRequestedTab ==
    [][(/\ last'.ev = "Discard"
        /\ pending_action.kind = "CloseTab"
        /\ tabs' # tabs)
          => TabAtIs(pending_action.idx, pending_action.id)
    ]_vars

(***************************************************************************)
(* Leaving the application.                                                *)
(***************************************************************************)
ActiveDirty == active_tab < Len(tabs) /\ tabs[active_tab + 1].dirty

\* The Exit menu item and Ctrl+Q: the dialog when the active tab is
\* modified, the window closed when it is not.
ExitRequestConfirmed ==
    last'.ev \in {"ExitMenu", "CtrlQ"} =>
        IF ActiveDirty
        THEN /\ confirm_open'
             /\ pending_action'.kind = "ExitApp"
             /\ window' = "open"
             /\ tabs' = tabs
        ELSE window' = "closed"

\* The Save button's task closes the window.
SaveClosesWindow ==
    /\ last'.ev \in {"ModalSave", "FileDialog"}
    /\ window = "open"
    /\ window' = "closed"

\* C40: the Exit menu item and Ctrl+Q open the confirmation dialog when the
\* active tab is modified and close the window when it is not; after Save
\* in the dialog the window is closed only if the save has cleared the
\* dirty flag of the active tab.
C40_ExitConfirmation ==
    [][/\ ExitRequestConfirmed
       /\ SaveClosesWindow =>
              /\ ActiveDirty
              /\ ~tabs'[active_tab + 1].dirty
              /\ status'[1] = "Saved"
    ]_vars

\* C40, the part about the request.
C40_ExitRequest == [][ExitRequestConfirmed]_vars

\* C40, the part about Save, for the tab the exit was asked for: when the
\* Save button's task closes the window, that tab is not modified.
C40_SavedBeforeExit ==
    [][(SaveClosesWindow /\ dialog.task = "ExitApp") =>
           \A i \in 1..Len(tabs') :
               tabs'[i].id = dialog.id => ~tabs'[i].dirty
    ]_vars

\* Ctrl+Q has opened the dialog: the active tab is modified, another is not.
C40_DialogReached ==
    /\ last.ev = "CtrlQ"
    /\ confirm_open /\ pending_action.kind = "ExitApp"
    /\ window = "open"
    /\ Len(tabs) = 2 /\ ActiveDirty
    /\ \E i \in 1..Len(tabs) : ~tabs[i].dirty

\* Ctrl+Q has closed the window: the active tab is not modified, another is.
C40_ClosedReached ==
    /\ last.ev = "CtrlQ"
    /\ window = "closed"
    /\ Len(tabs) = 2 /\ ~ActiveDirty
    /\ \E i \in 1..Len(tabs) : tabs[i].dirty
============================================================================
